---- MODULE Spec2Model ----
(***************************************************************************)
(* MessagePusher: the in-memory task queue (core/task_queue.py), the      *)
(* per-attempt rows of the store (database/models) and the retry sweep    *)
(* (core/message_processor.py), as state machines.                        *)
(***************************************************************************)
EXTENDS Integers, Sequences, FiniteSets, TLC

\* ---------------------------------------------------------------- bounds
MaxTasks == 3
MaxSubmitted == 2
MaxClock == 2
MaxWorkers == 2
MaxRetries == 1
MaxMessages == 1
MaxRows == 2
MaxObjs == 2
MaxStarts == 2
MaxHistory == 2
MaxContent == 4
MaxLength == 4
MaxCallbacks == 2
MaxPending == 4

\* ------------------------------------------------------ program constants
HIGH == 0
NORMAL == 1
LOW == 2
MainThread == 0
NoTime == -1
ProcessorMaxRetries == 3
MaxTaskAge == 604800

TaskIds == 1..MaxTasks
Threads == 1..(MaxWorkers * MaxStarts)
Priorities == {HIGH, NORMAL, LOW}
TaskTypes == {"SEND_MESSAGE"}
TaskStatus == {"PENDING", "PROCESSING", "COMPLETED", "FAILED", "RETRYING", "CANCELLED"}
\* exceptions of a handler that `except Exception` does not catch
\* (SystemExit, KeyboardInterrupt, GeneratorExit)
BaseExceptions == {"SystemExit"}
HandlerErrors == {"transient", "permanent"} \cup BaseExceptions
NoError == "None"
NoHandlerError == "no handler"
\* TaskType.SYSTEM_MAINTENANCE
SYSTEM_MAINTENANCE == "SYSTEM_MAINTENANCE"
\* the data of a task that names no action
NoData == "none"
\* Task.result before a handler returned, and what the handler returns
NoResult == "None"
HandlerResult == "done"
\* the callback of a task: none, one that returns, one that raises
NoCallback == "none"
Callbacks == {"returns", "raises", "exits"}

MsgIds == 1..MaxMessages
RowIds == 1..MaxRows
ObjIds == 1..MaxObjs
DbThreads == {MainThread} \cup Threads
RowKinds == {"channel", "ai"}

VARIABLES tasks, queue, task_handlers, stop_event, workers, pool, timers, now,
          lastCall, rows, objs, core, sched, api

\* the store's state and the task queue's state
store == <<rows, objs>>
qvars == <<tasks, queue, task_handlers, stop_event, workers, pool, timers, now>>

\* the supervisor's and the scheduler's state, and the state the HTTP API
\* works on
sys == <<core, sched, api>>

vars ==
    <<tasks, queue, task_handlers, stop_event, workers, pool, timers, now, lastCall,
      store, sys>>

\* ---------------------------------------------------------------- HTTP API
\* api_tokens.expires_at: NULL, an ISO time without offset, an ISO time with
\* a UTC offset, or text that is no ISO time
NoExpiry == [kind |-> "none", at |-> 0]
Expiries ==
    {NoExpiry, [kind |-> "aware", at |-> 0], [kind |-> "text", at |-> 0]}
        \cup {[kind |-> "naive", at |-> t] : t \in 0..MaxClock}

\* channel ids and the id of the AI channel, as strings of characters; "c2"
\* names no channels row
C1 == <<"c", "1">>
C2 == <<"c", "2">>
NoAi == "none"
AiIds == {"a1", "a2"}

\* no api_tokens row; a row holds the status, expires_at, the list that
\* default_channels is the JSON text of, and default_ai
NoToken ==
    [status |-> "none", expires_at |-> NoExpiry, default_channels |-> << >>,
     default_ai |-> NoAi]

\* no response yet; a response is the code of the JSON body (NoCode when the
\* request ended in an unhandled exception), the HTTP status, whether the
\* endpoint handler was run, whether data is an object (it is null in every
\* answer but that of code 0), data.channels and data.ai
NoCode == -1
Resp(code, http, ran, channels) ==
    [code |-> code, http |-> http, ran |-> ran, data |-> code = 0,
     channels |-> channels, ai |-> NoAi]
NoResp == Resp(NoCode, 0, FALSE, << >>)
NoReq ==
    [token |-> "missing", body |-> "params", fields |-> {}, channels |-> << >>,
     ai |-> NoAi]

\* the message content and the channel's max_length of the last SEND_MESSAGE
\* task handled, before any
NoDispatch == [content |-> << >>, max_length |-> 0]

\* The thread whose connection holds the database's write lock, the
\* credential, whether api_tokens holds a row of another credential, the
\* channels row "c1", the ai_channels rows, the messages, message_channels
\* and message_ai rows in the order of their insertion, the last request with
\* its response, the last SEND_MESSAGE task handled and the requests sent to
\* channel endpoints.
NewApi ==
    [writer |-> MainThread, token |-> NoToken, other_token |-> FALSE,
     channel |-> "none", ai_channel |-> [a \in AiIds |-> "none"],
     messages |-> << >>, message_channels |-> << >>, message_ai |-> << >>,
     req |-> NoReq, resp |-> NoResp, dispatch |-> NoDispatch, outbox |-> << >>]

\* ------------------------------------------------------------- CoreModule
\* CoreModule.__init__, lines 76-81: self._components
Components == <<"TaskQueue", "TaskScheduler", "MessageProcessor", "ErrorHandler">>

\* hasattr(component, 'configure'): ErrorHandler defines no configure
HasConfigure(c) == c # "ErrorHandler"

\* SystemConfigRepository defines no get_all: config_repo.get_all() raises
HasGetAll == FALSE

\* ------------------------------------------------------------ ErrorHandler
\* ErrorSeverity
Severities == {"LOW", "MEDIUM", "HIGH", "CRITICAL"}

\* the default notification_threshold
DefaultThreshold ==
    [s \in Severities |-> IF s = "LOW" THEN 100 ELSE IF s = "MEDIUM" THEN 10 ELSE 1]

\* the arguments of the last handle_error, before any call
NoError0 == [type |-> "none", severity |-> "none"]

\* ErrorHandler(max_error_history=..., notification_threshold=...)
NewErrorHandler(max_error_history, notification_threshold) ==
    [max_error_history |-> max_error_history,
     notification_threshold |-> notification_threshold,
     error_history |-> << >>,
     error_counters |-> [s \in Severities |-> 0],
     error_callbacks |-> [t \in {} |-> << >>],
     invoked |-> << >>,
     escaped |-> FALSE,
     req |-> NoError0]

\* a trim that drops the newest record
DropNewest(history, max) ==
    IF Len(history) > max THEN SubSeq(history, 1, Len(history) - 1) ELSE history

\* handle_error, lines 100-102: pop(0) when the history is longer than
\* max_error_history
DropOldest(history, max) ==
    IF Len(history) > max THEN Tail(history) ELSE history

\* a notification that fires only above the threshold
check_notification_above(count, threshold) ==
    IF count > threshold THEN 0 ELSE count

\* _check_notification: the counter it leaves
check_notification(count, threshold) ==
    IF count >= threshold THEN 0 ELSE count

\* the callbacks a caller registers: two that return, one that raises an
\* Exception and one that raises SystemExit
ErrorCallbacks == {"first", "second", "raising", "exiting"}
CallbackRaises(callback) == callback = "raising"
CallbackExits(callback) == callback = "exiting"

\* _call_error_callbacks, lines 186-190: the callbacks called, in order.  The
\* Exception of a callback is logged and the loop goes on; line 189 is
\* `except Exception`, which does not catch SystemExit: that exception ends
\* the loop and leaves the call
RECURSIVE CallEach(_)
CallEach(callbacks) ==
    IF callbacks = << >> THEN << >>
    ELSE IF CallbackExits(Head(callbacks)) THEN <<Head(callbacks)>>
    ELSE <<Head(callbacks)>> \o CallEach(Tail(callbacks))

\* _call_error_callbacks: the exception of a callback leaves the loop
Escapes(callbacks) == \E k \in DOMAIN callbacks : CallbackExits(callbacks[k])

\* _call_error_callbacks, line 185: self._error_callbacks.get(error_type, [])
CallbacksOf(eh, error_type) ==
    IF error_type \in DOMAIN eh.error_callbacks THEN eh.error_callbacks[error_type]
    ELSE << >>

\* ErrorHandler.register_error_callback(error_type, callback) on handler eh
register_error_callback(eh, error_type, callback) ==
    [eh EXCEPT !.error_callbacks =
        [t \in DOMAIN eh.error_callbacks \cup {error_type} |->
            IF t = error_type THEN Append(CallbacksOf(eh, t), callback)
            ELSE eh.error_callbacks[t]]]

\* ErrorHandler.handle_error(error_type, error, severity) on handler eh: the
\* record is appended and the history trimmed, the counter is updated and
\* tested against the threshold, then the callbacks registered for
\* error_type are given the record; `invoked` lists the callbacks called and
\* `escaped` tells that the call ended in the SystemExit of a callback, the
\* record and the counter being kept
handle_error(eh, error_type, severity) ==
    LET error_record == [type |-> error_type, severity |-> severity]
        appended == Append(eh.error_history, error_record)
    IN  [eh EXCEPT !.error_history = DropOldest(appended, eh.max_error_history),
                   !.error_counters[severity] =
                       check_notification(@ + 1, eh.notification_threshold[severity]),
                   !.invoked = CallEach(CallbacksOf(eh, error_type)),
                   !.escaped = Escapes(CallbacksOf(eh, error_type)),
                   !.req = error_record]

\* CoreModule.__init__: the error handler is built from error_handler_config,
\* here {"max_error_history": MaxHistory}
NewCore ==
    [running |-> FALSE, shutting_down |-> FALSE, op |-> "idle", pos |-> 0, resume |-> 0,
     configured |-> {}, startlog |-> << >>, stoplog |-> << >>,
     error_handler |-> NewErrorHandler(MaxHistory, DefaultThreshold)]

\* TaskScheduler.__init__: a stopped scheduler without jobs or task queue
\* and with the default max_task_age; `cleaning` tells whether the cleanup
\* job is between its two calls
NewSched ==
    [running |-> FALSE, pending |-> << >>, jobs |-> {}, task_queue |-> FALSE,
     max_task_age |-> MaxTaskAge, cleaning |-> FALSE]

\* -------------------------------------------------------------- Task
\* Task.__init__: a new task is PENDING with no error and no completed_at
\* (NoTime stands for None).  `tasks` holds the Task
\* objects that are alive; `registered` tells whether the object is (still) in
\* the dictionary TaskQueue._tasks.
\* `adds` counts the calls of add_task with the object, `runs` the calls of
\* the task's handler, `called` those of its callback, and `passed` is the
\* argument of the last of them.
NewTask(task_type, data, priority, callback, created_at, retry_count, max_retries) ==
    [task_type |-> task_type, data |-> data, priority |-> priority, status |-> "PENDING",
     created_at |-> created_at, completed_at |-> NoTime, error |-> NoError,
     result |-> NoResult, callback |-> callback,
     retry_count |-> retry_count, max_retries |-> max_retries, registered |-> FALSE,
     adds |-> 0, runs |-> 0, called |-> 0, passed |-> NoResult]

\* a comparison by submission time only
TaskLtByTime(a, b) == a.created_at < b.created_at

\* Task.__lt__
TaskLt(a, b) ==
    IF a.priority # b.priority
    THEN a.priority < b.priority
    ELSE a.created_at < b.created_at

\* ---------------------------------------------- queue.PriorityQueue (heapq)
\* The queue is the heap array of queue.PriorityQueue; entries are task ids
\* standing for the Task objects, compared with Task.__lt__.
Lt(T, i, j) == TaskLt(T[i], T[j])

RECURSIVE SiftDown(_, _, _, _, _)
SiftDown(T, heap, startpos, pos, newitem) ==
    IF pos > startpos /\ Lt(T, newitem, heap[pos \div 2])
    THEN SiftDown(T, [heap EXCEPT ![pos] = heap[pos \div 2]], startpos, pos \div 2, newitem)
    ELSE [heap EXCEPT ![pos] = newitem]

RECURSIVE SiftUp(_, _, _, _, _)
SiftUp(T, heap, startpos, pos, newitem) ==
    LET child == 2 * pos
        right == child + 1
        c == IF right <= Len(heap) /\ ~Lt(T, heap[child], heap[right]) THEN right ELSE child
    IN  IF child <= Len(heap)
        THEN SiftUp(T, [heap EXCEPT ![pos] = heap[c]], startpos, c, newitem)
        ELSE SiftDown(T, [heap EXCEPT ![pos] = newitem], startpos, pos, newitem)

\* PriorityQueue.put
HeapPush(T, heap, item) ==
    SiftDown(T, Append(heap, item), 1, Len(heap) + 1, item)

\* PriorityQueue.get: the item returned and the heap left behind
HeapTop(heap) == heap[1]

HeapPop(T, heap) ==
    IF Len(heap) = 1
    THEN << >>
    ELSE LET last == heap[Len(heap)]
             rest == SubSeq(heap, 1, Len(heap) - 1)
         IN  SiftUp(T, [rest EXCEPT ![1] = last], 1, 1, last)

InQueue(q, i) == \E k \in 1..Len(q) : q[k] = i

Range(q) == {q[k] : k \in 1..Len(q)}

\* ------------------------------------------------------------- API results
NoCall == [op |-> "none", id |-> 0, ret |-> FALSE]
Call(op, id, ret) == [op |-> op, id |-> id, ret |-> ret]

\* ------------------------------------------------------------------ store
\* A row of message_channels (kind "channel") or message_ai (kind "ai"), named
\* by its id (BaseModel.__init__ gives every object a fresh uuid): the row of
\* message `message` and channel "c1" (AI channel "a1"); `pos` is its rank
\* among the rows in the order of insertion, the order in which find_one
\* reads them.  A model object (MessageChannel / MessageAI instance) holds a
\* copy of the fields of row `row`; `proceeds` records that the object's last
\* mark_as_sending / mark_as_processing returned True and its holder has not
\* yet reported the outcome; `orphan` that the messages row or the channel
\* row its foreign keys name is gone.
NoRow == [kind |-> "none", message |-> 0, status |-> "none", error |-> NoError, pos |-> 0]
NoObj ==
    [row |-> 0, kind |-> "none", message |-> 0, status |-> "none", error |-> NoError,
     proceeds |-> FALSE, orphan |-> FALSE]

\* no connection is inside a write transaction
NoWriter == -1

\* init_db runs on the main thread and leaves its connection inside a write
\* transaction that no code commits: only that thread's connection can write,
\* and only it sees what has been written, until close_db closes the
\* connection; the next thread that writes then holds the lock.
DbWriter == api.writer

\* a statement of thread th that writes gets the write lock (at once, or
\* not within the 5 s timeout of sqlite3.connect)
CanWrite(th) == DbWriter \in {NoWriter, th}

\* the holder of the write lock after thread th executed a statement that
\* writes, whether or not the statement then failed
WriterAfter(th) == IF CanWrite(th) THEN th ELSE DbWriter

\* the channel "c1" (the AI channel "a1") that the rows of a kind name exists
RowAi == "a1"
ParentExists(kind) ==
    IF kind = "channel" THEN api.channel # "none" ELSE api.ai_channel[RowAi] # "none"

\* the retry count the sweep reads from a row: the tables have no such column
RetryCountOf(row) == 0

\* MessageChannel.STATUS_SENDING / MessageAI.STATUS_PROCESSING
InProgress(kind) == IF kind = "channel" THEN "sending" ELSE "processing"

Terminal(row) == row.status \in {"success", "failed"}

RowErrors == {NoError, "dispatch failed"}

\* self._tasks.get(task_id) finds a task
Known(id) == id \in DOMAIN tasks /\ tasks[id].registered

\* Task ids are fresh uuids: an id of the model can stand for a new task once
\* no object, queue entry or timer refers to it.
FreeIds == {i \in TaskIds : i \notin DOMAIN tasks /\ timers[i] = 0}

\* clean_completed_tasks, line 391: `task.completed_at and ...` is true of a
\* time stamp that is neither None nor 0
HasCompletedAt(t) == t.completed_at # NoTime /\ t.completed_at # 0

\* The objects of T still referred to once worker `leaving` (0: no worker) has
\* let go of the task it holds: those in _tasks, in the queue q or held by
\* another worker.
Alive(T, q, leaving) ==
    [i \in {j \in DOMAIN T :
                \/ T[j].registered
                \/ InQueue(q, j)
                \/ \E w \in Threads \ {leaving} : workers[w].task = j} |-> T[i]]

\* ----------------------------------------------------------------- Init
\* TaskQueue.__init__, line 142: self._workers, the list of the threads
\* that start() made, is empty; `joining` tells whether a caller of stop() is
\* inside it, between setting the flag and emptying the list
NewPool == [workers |-> {}, joining |-> FALSE]

\* TaskQueue.__init__
Init ==
    /\ tasks = << >>
    /\ queue = << >>
    /\ task_handlers = {}
    /\ stop_event = FALSE
    /\ workers = [w \in Threads |-> [pc |-> "unstarted", task |-> 0]]
    /\ pool = NewPool
    /\ timers = [i \in TaskIds |-> 0]
    /\ now = 0
    /\ lastCall = NoCall
    /\ rows = [r \in RowIds |-> NoRow]
    /\ objs = [o \in ObjIds |-> NoObj]
    /\ core = NewCore
    /\ api = NewApi
    /\ sched = NewSched

\* The database after the main thread created the credential, channel "c1",
\* the AI channels and the messages 1..MaxMessages.
SeededApi ==
    [NewApi EXCEPT !.token = [status |-> "enabled", expires_at |-> NoExpiry,
                              default_channels |-> << >>, default_ai |-> NoAi],
                   !.channel = "enabled",
                   !.ai_channel = [a \in AiIds |-> "enabled"],
                   !.messages = [k \in MsgIds |-> [fields |-> {"title"}, owned |-> TRUE]]]

InitSeeded ==
    /\ tasks = << >>
    /\ queue = << >>
    /\ task_handlers = {}
    /\ stop_event = FALSE
    /\ workers = [w \in Threads |-> [pc |-> "unstarted", task |-> 0]]
    /\ pool = NewPool
    /\ timers = [i \in TaskIds |-> 0]
    /\ now = 0
    /\ lastCall = NoCall
    /\ rows = [r \in RowIds |-> NoRow]
    /\ objs = [o \in ObjIds |-> NoObj]
    /\ core = NewCore
    /\ api = SeededApi
    /\ sched = NewSched

\* ------------------------------------------------------------ TaskQueue
\* the thread slots that stand for no thread
FreeThreads == {w \in Threads : workers[w].pc \in {"unstarted", "exited"}}

\* the threads of a start() in progress that its loop has yet to start
ToStart == {w \in Threads : workers[w].pc = "created"}

\* the worker threads that are alive: started, and inside _worker_loop
LiveThreads == Threads \ (FreeThreads \cup ToStart)

\* get_status, line 202: the threads of self._workers that are alive
active_workers == Cardinality(pool.workers \cap LiveThreads)

\* the slots taken by the max_workers threads that start() creates
NewThreads == {w \in FreeThreads : Cardinality({v \in FreeThreads : v < w}) < MaxWorkers}

\* no start() has been called yet
NeverStarted == \A w \in Threads : workers[w].pc = "unstarted"

\* TaskQueue.start, lines 157-160: clear the stop flag and enter the loop that
\* creates and starts max_workers threads.  The code starts threads without
\* limit; the model has MaxStarts * MaxWorkers thread slots and takes a
\* start() only while max_workers of them are free.
queue_start ==
    /\ Cardinality(FreeThreads) >= MaxWorkers
    /\ stop_event' = FALSE
    /\ workers' = [w \in Threads |->
                     IF w \in NewThreads THEN [pc |-> "created", task |-> 0] ELSE workers[w]]
    /\ pool' = pool

\* a caller invoking start()
Start ==
    /\ queue_start
    /\ lastCall' = NoCall
    /\ UNCHANGED <<tasks, queue, task_handlers, timers, now, store, sys>>

\* TaskQueue.start, lines 161-169: one turn of the loop, which appends the
\* next thread to self._workers and starts it; the thread runs from then on,
\* beside the loop that goes on to start the others
SpawnWorker(w) ==
    /\ workers[w].pc = "created"
    /\ \A v \in ToStart : w <= v
    /\ workers' = [workers EXCEPT ![w].pc = "loop"]
    /\ pool' = [pool EXCEPT !.workers = @ \cup {w}]
    /\ lastCall' = NoCall
    /\ UNCHANGED <<tasks, queue, task_handlers, stop_event, timers, now, store, sys>>

\* TaskQueue.stop, line 176: set the stop flag.  The caller then waits in
\* join(timeout=2.0) for each worker of self._workers that is alive (lines
\* 179-181), while the workers take their own steps.  The model follows one
\* caller of stop() at a time.
queue_stop ==
    /\ ~pool.joining
    /\ stop_event' = TRUE
    /\ pool' = [pool EXCEPT !.joining = TRUE]

\* a caller invoking stop()
Stop ==
    /\ queue_stop
    /\ lastCall' = NoCall
    /\ UNCHANGED <<tasks, queue, task_handlers, workers, timers, now, store, sys>>

\* TaskQueue.stop, lines 179-184: the joins are over, each because its
\* worker ended or because its 2 s ran out, wherever the worker is by then;
\* self._workers becomes the empty list and stop() returns
StopReturn ==
    /\ pool.joining
    /\ pool' = [workers |-> {}, joining |-> FALSE]
    /\ lastCall' = NoCall
    /\ UNCHANGED <<tasks, queue, task_handlers, stop_event, workers, timers, now, store, sys>>

\* no call of start() or stop() is in progress
Returned == ~pool.joining /\ ToStart = {}

\* a caller invoking get_status(): the value of "active_workers"
GetStatus ==
    /\ lastCall' = Call("get_status", active_workers, TRUE)
    /\ UNCHANGED <<qvars, store, sys>>

\* TaskQueue.register_task_handler
RegisterTaskHandler(task_type) ==
    /\ task_type \notin task_handlers
    /\ task_handlers' = task_handlers \cup {task_type}
    /\ lastCall' = NoCall
    /\ UNCHANGED <<tasks, queue, stop_event, workers, pool, timers, now, store, sys>>

\* time.time() as read by Task.__init__: the clock has advanced by adv ticks
\* since the last reading; readings from MaxClock on are not told apart.
Clock(adv) == IF now + adv <= MaxClock THEN now + adv ELSE MaxClock

\* time passes: the next time.time() reads one tick more
Tick ==
    /\ now < MaxClock
    /\ now' = now + 1
    /\ lastCall' = NoCall
    /\ UNCHANGED <<tasks, queue, task_handlers, stop_event, workers, pool, timers, store, sys>>

\* the id that stands for the uuid of the next task created beside those of T
NextId(T) ==
    LET free == {i \in TaskIds : i \notin DOMAIN T /\ timers[i] = 0}
    IN  IF free = {} THEN 0 ELSE CHOOSE i \in free : \A j \in free : i <= j

\* The readings of time.time() a Task.__init__ may have made when its
\* add_task takes the lock at time t: the Task is built (line 76) before
\* add_task waits for the lock (line 233), so the stamp may be older than
\* those of tasks added in between.
Readings(t) == 0..t

\* TaskQueue.add_task of the Task object `task`, known as id, when the task
\* map is T: the object is stored under its id and put in the queue.
add_task(T, id, task) ==
    LET T1 == [i \in DOMAIN T \cup {id} |->
                 IF i = id
                 THEN [task EXCEPT !.registered = TRUE, !.adds = @ + 1]
                 ELSE T[i]]
    IN  /\ tasks' = T1
        /\ queue' = HeapPush(T1, queue, id)

\* TaskQueue.create_task, called when the task map is T: Task(...) with
\* max_retries of the configuration, stamped with the reading `read`, then
\* add_task.
create_task(T, task_type, data, priority, callback, read, adv) ==
    /\ NextId(T) # 0
    /\ read \in Readings(Clock(adv))
    /\ now' = Clock(adv)
    /\ add_task(T, NextId(T),
                NewTask(task_type, data, priority, callback, read, 0, MaxRetries))

\* a caller invoking create_task
CreateTask(task_type, priority, read, adv) ==
    /\ create_task(tasks, task_type, NoData, priority, NoCallback, read, adv)
    /\ lastCall' = Call("create", NextId(tasks), TRUE)
    /\ UNCHANGED <<task_handlers, stop_event, workers, pool, timers, store, sys>>

\* a caller invoking create_task with a callback
CreateTaskWithCallback(task_type, callback, read, adv) ==
    /\ create_task(tasks, task_type, NoData, NORMAL, callback, read, adv)
    /\ lastCall' = Call("create", NextId(tasks), TRUE)
    /\ UNCHANGED <<task_handlers, stop_event, workers, pool, timers, store, sys>>

\* a caller invoking add_task with a Task object it has built:
\* Task(task_type, data, priority, retry_count=..., max_retries=...)
AddTask(task_type, priority, retry_count, max_retries, read, adv) ==
    /\ NextId(tasks) # 0
    /\ read \in Readings(Clock(adv))
    /\ now' = Clock(adv)
    /\ add_task(tasks, NextId(tasks),
                NewTask(task_type, NoData, priority, NoCallback, read,
                        retry_count, max_retries))
    /\ lastCall' = Call("add", NextId(tasks), TRUE)
    /\ UNCHANGED <<task_handlers, stop_event, workers, pool, timers, store, sys>>

\* a caller invoking add_task once more with a Task object it has added
\* before and kept
AddTaskAgain(id) ==
    /\ id \in DOMAIN tasks
    /\ tasks[id].adds < MaxSubmitted
    /\ add_task(tasks, id, tasks[id])
    /\ lastCall' = Call("add_again", id, TRUE)
    /\ UNCHANGED <<task_handlers, stop_event, workers, pool, timers, now, store, sys>>

\* a cancel_task that also accepts a task being processed
CancelAllowedWhileActive(t) == t.status \in {"PENDING", "PROCESSING"}

\* TaskQueue.cancel_task, line 267
CancelAllowed(t) == t.status = "PENDING"

\* TaskQueue.cancel_task
cancel_task(id) ==
    IF Known(id) /\ CancelAllowed(tasks[id])
    THEN /\ tasks' = [tasks EXCEPT ![id].status = "CANCELLED"]
         /\ lastCall' = Call("cancel", id, TRUE)
    ELSE /\ tasks' = tasks
         /\ lastCall' = Call("cancel", id, FALSE)

CancelTask(id) ==
    /\ cancel_task(id)
    /\ UNCHANGED <<queue, task_handlers, stop_event, workers, pool, timers, now, store, sys>>

\* a retry_task that checks the retry budget but not the status
RetryAllowedAnyStatus(t) == t.retry_count < t.max_retries

\* a retry_task that checks the status but not the retry budget
RetryAllowedNoBudget(t) == t.status = "FAILED"

\* TaskQueue.retry_task, line 289
RetryAllowed(t) == t.status = "FAILED" /\ t.retry_count < t.max_retries

\* TaskQueue.retry_task
retry_task(id) ==
    IF Known(id) /\ RetryAllowed(tasks[id])
    THEN /\ tasks' = [tasks EXCEPT ![id].status = "PENDING",
                                   ![id].retry_count = @ + 1,
                                   ![id].error = NoError]
         /\ queue' = HeapPush(tasks', queue, id)
         /\ lastCall' = Call("retry", id, TRUE)
    ELSE /\ tasks' = tasks
         /\ queue' = queue
         /\ lastCall' = Call("retry", id, FALSE)

\* a caller invoking retry_task(id)
RetryTask(id) ==
    /\ retry_task(id)
    /\ UNCHANGED <<task_handlers, stop_event, workers, pool, timers, now, store, sys>>

\* the threading.Timer started by _process_task fires and calls retry_task(id)
TimerFire(id) ==
    /\ timers[id] > 0
    /\ timers' = [timers EXCEPT ![id] = @ - 1]
    /\ retry_task(id)
    /\ UNCHANGED <<task_handlers, stop_event, workers, pool, now, store, sys>>

\* clean_completed_tasks, lines 390-392: the task is put in to_remove
ToRemove(t, current_time, max_age) ==
    /\ t.status \in {"COMPLETED", "CANCELLED"}
    /\ HasCompletedAt(t)
    /\ current_time - t.completed_at > max_age

\* TaskQueue.clean_completed_tasks(max_age): the tasks of to_remove leave
\* _tasks.
clean_completed_tasks(max_age) ==
    Alive([i \in DOMAIN tasks |->
             IF tasks[i].registered /\ ToRemove(tasks[i], now, max_age)
             THEN [tasks[i] EXCEPT !.registered = FALSE]
             ELSE tasks[i]],
          queue, 0)

\* a caller invoking clean_completed_tasks
CleanCompletedTasks(max_age) ==
    /\ tasks' = clean_completed_tasks(max_age)
    /\ lastCall' = Call("clean_completed_tasks", max_age, TRUE)
    /\ UNCHANGED <<queue, task_handlers, stop_event, workers, pool, timers, now, store, sys>>

\* ------------------------------------------------------------ worker loop
\* _worker_loop, line 303: the loop condition holds while the stop flag is
\* clear; the worker then blocks in queue.get(timeout=1).
WorkerLoop(w) ==
    /\ workers[w].pc = "loop"
    /\ ~stop_event
    /\ workers' = [workers EXCEPT ![w].pc = "get"]
    /\ lastCall' = NoCall
    /\ UNCHANGED <<tasks, queue, task_handlers, stop_event, pool, timers, now, store, sys>>

\* _worker_loop, line 303: the loop condition fails once the stop flag is set.
WorkerExit(w) ==
    /\ workers[w].pc = "loop"
    /\ stop_event
    /\ workers' = [workers EXCEPT ![w].pc = "exited"]
    /\ lastCall' = NoCall
    /\ UNCHANGED <<tasks, queue, task_handlers, stop_event, pool, timers, now, store, sys>>

\* _worker_loop, lines 308-309: queue.get timed out on an empty queue.
WorkerEmpty(w) ==
    /\ workers[w].pc = "get"
    /\ Len(queue) = 0
    /\ workers' = [workers EXCEPT ![w].pc = "loop"]
    /\ lastCall' = NoCall
    /\ UNCHANGED <<tasks, queue, task_handlers, stop_event, pool, timers, now, store, sys>>

\* _worker_loop, line 307: queue.get returns the head of the heap; the worker
\* holds the task
WorkerGet(w) ==
    /\ workers[w].pc = "get"
    /\ Len(queue) > 0
    /\ workers' = [workers EXCEPT ![w] = [pc |-> "test", task |-> HeapTop(queue)]]
    /\ queue' = HeapPop(tasks, queue)
    /\ tasks' = tasks
    /\ lastCall' = NoCall
    /\ UNCHANGED <<task_handlers, stop_event, pool, timers, now, store, sys>>

\* _worker_loop, lines 312-317: the status is read without the lock; a task
\* that is not PENDING is acknowledged and skipped, a PENDING one is handed
\* to _process_task
WorkerTest(w) ==
    /\ workers[w].pc = "test"
    /\ IF tasks[workers[w].task].status # "PENDING"
       THEN /\ workers' = [workers EXCEPT ![w] = [pc |-> "loop", task |-> 0]]
            /\ tasks' = Alive(tasks, queue, w)
       ELSE /\ workers' = [workers EXCEPT ![w].pc = "process"]
            /\ tasks' = tasks
    /\ lastCall' = NoCall
    /\ UNCHANGED <<queue, task_handlers, stop_event, pool, timers, now, store, sys>>

\* _process_task, lines 335-337
WorkerBegin(w) ==
    /\ workers[w].pc = "process"
    /\ tasks' = [tasks EXCEPT ![workers[w].task].status = "PROCESSING"]
    /\ workers' = [workers EXCEPT ![w].pc = "lookup"]
    /\ lastCall' = NoCall
    /\ UNCHANGED <<queue, task_handlers, stop_event, pool, timers, now, store, sys>>

\* _process_task, lines 343-348: the handler of the task type is read from
\* _task_handlers without the lock; the worker then calls it, or is about to
\* raise the ValueError of line 345
WorkerLookup(w) ==
    /\ workers[w].pc = "lookup"
    /\ workers' = [workers EXCEPT ![w].pc =
                       IF tasks[workers[w].task].task_type \in task_handlers
                       THEN "handler" ELSE "missing"]
    /\ lastCall' = NoCall
    /\ UNCHANGED <<tasks, queue, task_handlers, stop_event, pool, timers, now, store, sys>>

\* _process_task, lines 348 and 354: the handler is called and its return
\* value becomes task.result
RecordResult(T, id) == [T EXCEPT ![id].runs = @ + 1, ![id].result = HandlerResult]

\* _process_task, lines 348-357: the handler returned; the worker goes on to
\* the callback when the task has one (line 359)
HandlerReturn(w) ==
    /\ workers[w].pc = "handler"
    /\ LET id == workers[w].task
           done == [RecordResult(tasks, id) EXCEPT ![id].status = "COMPLETED",
                                                   ![id].completed_at = now]
       IN  IF tasks[id].callback = NoCallback
           THEN /\ tasks' = Alive(done, queue, w)
                /\ workers' = [workers EXCEPT ![w] = [pc |-> "loop", task |-> 0]]
           ELSE /\ tasks' = done
                /\ workers' = [workers EXCEPT ![w].pc = "callback"]
    /\ lastCall' = NoCall
    /\ UNCHANGED <<queue, task_handlers, stop_event, pool, timers, now, store, sys>>

\* a callback whose exception is handled like one of the handler: the task is
\* recorded FAILED and the retry test follows
CallbackFailsTask(w) ==
    /\ workers[w].pc = "callback"
    /\ LET id == workers[w].task IN
       tasks' = [tasks EXCEPT ![id].called = @ + 1, ![id].passed = tasks[id].result,
                              ![id].status =
                                  IF tasks[id].callback = "raises" THEN "FAILED" ELSE @]
    /\ workers' = [workers EXCEPT ![w].pc =
                       IF tasks[workers[w].task].callback = "raises"
                       THEN "retrycheck" ELSE "loop",
                                  ![w].task =
                       IF tasks[workers[w].task].callback = "raises" THEN @ ELSE 0]
    /\ lastCall' = NoCall
    /\ UNCHANGED <<queue, task_handlers, stop_event, pool, timers, now, store, sys>>

\* _process_task, lines 359-363: task.callback(task.result); an Exception of
\* the callback is logged and the worker returns to its loop; an exception
\* that is no Exception passes lines 362, 365 and 322 and ends the thread
WorkerCallback(w) ==
    /\ workers[w].pc = "callback"
    /\ LET id == workers[w].task IN
       /\ tasks' = Alive([tasks EXCEPT ![id].called = @ + 1,
                                       ![id].passed = tasks[id].result],
                         queue, w)
       /\ workers' = [workers EXCEPT ![w] =
                          [pc |-> IF tasks[id].callback = "exits" THEN "exited" ELSE "loop",
                           task |-> 0]]
    /\ lastCall' = NoCall
    /\ UNCHANGED <<queue, task_handlers, stop_event, pool, timers, now, store, sys>>

\* _process_task, lines 365-370: the exception is caught and recorded, after
\* `calls` calls of the handler (one when the handler raised it, none when
\* the lookup of the handler did)
FailTask(w, err, calls) ==
    /\ tasks' = [tasks EXCEPT ![workers[w].task].status = "FAILED",
                              ![workers[w].task].completed_at = now,
                              ![workers[w].task].error = err,
                              ![workers[w].task].runs = @ + calls]
    /\ workers' = [workers EXCEPT ![w].pc = "retrycheck"]
    /\ lastCall' = NoCall
    /\ UNCHANGED <<queue, task_handlers, stop_event, pool, timers, now, store, sys>>

\* _process_task, line 348: the handler raised err.  `except Exception`
\* (line 365) records an Exception; any other exception passes it and the
\* `except Exception` of _worker_loop (line 322) and ends the thread, the
\* task staying PROCESSING.
HandlerRaise(w, err) ==
    /\ workers[w].pc = "handler"
    /\ IF err \in BaseExceptions
       THEN /\ tasks' = Alive([tasks EXCEPT ![workers[w].task].runs = @ + 1], queue, w)
            /\ workers' = [workers EXCEPT ![w] = [pc |-> "exited", task |-> 0]]
            /\ lastCall' = NoCall
            /\ UNCHANGED <<queue, task_handlers, stop_event, pool, timers, now, store, sys>>
       ELSE FailTask(w, err, 1)

\* a missing handler whose ValueError leaves _process_task and ends the
\* worker thread, the task staying PROCESSING
HandlerMissingEndsWorker(w) ==
    /\ workers[w].pc = "missing"
    /\ workers' = [workers EXCEPT ![w] = [pc |-> "exited", task |-> 0]]
    /\ lastCall' = NoCall
    /\ UNCHANGED <<tasks, queue, task_handlers, stop_event, pool, timers, now, store, sys>>

\* _process_task, lines 344-345 and 365-370: the lookup found no handler; the
\* ValueError is raised and recorded, whatever has been registered since
HandlerMissing(w) ==
    /\ workers[w].pc = "missing"
    /\ FailTask(w, NoHandlerError, 0)

\* _process_task, line 375
AutoRetryDue(t) == t.retry_count < t.max_retries

\* _process_task, lines 375-376: start the retry Timer if budget remains
WorkerRetryCheck(w) ==
    /\ workers[w].pc = "retrycheck"
    /\ IF AutoRetryDue(tasks[workers[w].task])
       THEN timers' = [timers EXCEPT ![workers[w].task] = @ + 1]
       ELSE timers' = timers
    /\ tasks' = Alive(tasks, queue, w)
    /\ workers' = [workers EXCEPT ![w] = [pc |-> "loop", task |-> 0]]
    /\ lastCall' = NoCall
    /\ UNCHANGED <<queue, task_handlers, stop_event, pool, now, store, sys>>

\* the steps of a worker thread while the pool runs
WorkerRun(w, Errs) ==
    \/ WorkerLoop(w)
    \/ WorkerEmpty(w)
    \/ WorkerGet(w)
    \/ WorkerTest(w)
    \/ WorkerBegin(w)
    \/ WorkerLookup(w)
    \/ HandlerReturn(w)
    \/ \E err \in Errs : HandlerRaise(w, err)
    \/ HandlerMissing(w)
    \/ WorkerRetryCheck(w)

WorkerStep(w, Errs) ==
    \/ WorkerExit(w)
    \/ WorkerRun(w, Errs)

\* ------------------------------------------------------------ TaskScheduler
\* _register_builtin_tasks with the job functions: the job ids, whether the
\* job first cleans the task map, and the action and priority of the task it
\* submits
Jobs ==
    << [id |-> "cleanup_task", cleans |-> TRUE, action |-> "cleanup", priority |-> LOW],
       [id |-> "retry_failed_tasks", cleans |-> FALSE,
        action |-> "retry_failed_messages", priority |-> NORMAL],
       [id |-> "generate_stats", cleans |-> FALSE,
        action |-> "generate_stats", priority |-> LOW],
       [id |-> "db_maintenance", cleans |-> FALSE,
        action |-> "db_maintenance", priority |-> LOW] >>

\* the ids of the jobs, in the order _register_builtin_tasks adds them
JobIds == [k \in DOMAIN Jobs |-> Jobs[k].id]

\* scheduler.add_job raises ConflictingIdError: the job store of a running
\* scheduler holds the id (a stopped scheduler only notes the job as pending)
AddRaises(s, id) == s.running /\ id \in s.jobs

\* scheduler.add_job(func, trigger, id=id): a stopped scheduler appends the
\* job to its pending jobs, a running one puts it in the job store
add_job(s, id) ==
    IF ~s.running THEN [s EXCEPT !.pending = Append(@, id)]
    ELSE IF id \in s.jobs THEN s
    ELSE [s EXCEPT !.jobs = @ \cup {id}]

\* _register_builtin_tasks, lines 131-160: the add_job calls in order, up to
\* the first that raises
RECURSIVE register_builtin_tasks(_, _)
register_builtin_tasks(s, ids) ==
    IF ids = << >> \/ AddRaises(s, Head(ids)) THEN s
    ELSE register_builtin_tasks(add_job(s, Head(ids)), Tail(ids))

\* one of the add_job calls of _register_builtin_tasks raises
RegisterRaises(s) == \E k \in DOMAIN JobIds : AddRaises(s, JobIds[k])

\* scheduler.start moves the pending jobs to the job store in order: the
\* first pending job whose id the store then holds (0: none)
FirstConflict(s) ==
    LET hits == {i \in DOMAIN s.pending :
                    s.pending[i] \in s.jobs \cup {s.pending[j] : j \in 1..(i - 1)}}
    IN  IF hits = {} THEN 0 ELSE CHOOSE i \in hits : \A j \in hits : i <= j

\* TaskScheduler.start raises: scheduler.start() raises
\* SchedulerAlreadyRunningError on a running scheduler and ConflictingIdError
\* at a pending job whose id is taken
SchedulerStartRaises(s) == s.running \/ FirstConflict(s) # 0

\* scheduler.start(): the pending jobs before the first conflict enter the
\* job store; without a conflict the pending list is emptied and the
\* scheduler runs
scheduler_start(s) ==
    IF s.running THEN s
    ELSE IF FirstConflict(s) # 0
    THEN [s EXCEPT !.jobs = @ \cup {s.pending[j] : j \in 1..(FirstConflict(s) - 1)}]
    ELSE [s EXCEPT !.jobs = @ \cup {s.pending[j] : j \in DOMAIN s.pending},
                   !.pending = << >>, !.running = TRUE]

\* scheduler.remove_job finds the job: among the pending jobs of a stopped
\* scheduler, in the job store of a running one
RemoveFound(s, id) ==
    IF s.running THEN id \in s.jobs
    ELSE \E i \in DOMAIN s.pending : s.pending[i] = id

\* scheduler.remove_job(job_id): the first pending job of that id, or the
\* job of the store, is removed
remove_job(s, id) ==
    IF s.running THEN [s EXCEPT !.jobs = @ \ {id}]
    ELSE IF ~RemoveFound(s, id) THEN s
    ELSE LET m == CHOOSE i \in DOMAIN s.pending :
                      /\ s.pending[i] = id
                      /\ \A j \in 1..(i - 1) : s.pending[j] # id
         IN  [s EXCEPT !.pending = [i \in 1..(Len(s.pending) - 1) |->
                                       IF i < m THEN s.pending[i] ELSE s.pending[i + 1]]]

\* ------------------------------------------------------ CoreModule lifecycle
\* CoreModule.initialize: init_db, whose INSERT statements take the write
\* lock for the main thread's connection or raise when another connection
\* holds it; then _load_system_config, which raises at config_repo.get_all().
\* The exception is caught, handed to the error handler with the default
\* severity, and False is returned before any component is configured or
\* initialized; the exception of an error callback leaves initialize.
Initialize ==
    /\ core.op = "idle"
    /\ IF HasGetAll /\ CanWrite(MainThread)
       THEN /\ core' = [core EXCEPT !.configured =
                          {Components[k] : k \in {j \in DOMAIN Components :
                                                      HasConfigure(Components[j])}}]
            /\ sched' = register_builtin_tasks(sched, JobIds)
            /\ lastCall' = Call("initialize", 0, TRUE)
       ELSE LET eh == handle_error(core.error_handler, "system_initialization", "MEDIUM")
            IN  /\ core' = [core EXCEPT !.error_handler = eh]
                /\ sched' = sched
                /\ lastCall' = IF eh.escaped THEN Call("initialize_raised", 0, FALSE)
                               ELSE Call("initialize", 0, FALSE)
    /\ api' = [api EXCEPT !.writer = WriterAfter(MainThread)]
    /\ UNCHANGED <<qvars, store>>

\* CoreModule.start, lines 175-182: return at once when already running,
\* else begin starting the components
CoreStart ==
    /\ core.op = "idle"
    /\ IF core.running
       THEN /\ core' = core
            /\ lastCall' = Call("start", 0, FALSE)
       ELSE /\ core' = [core EXCEPT !.op = "start", !.pos = 1, !.startlog = << >>]
            /\ lastCall' = NoCall
    /\ UNCHANGED <<qvars, store, sched, api>>

\* component.start() raises: of the components only the scheduler's does
StartRaises(c) == c = "TaskScheduler" /\ SchedulerStartRaises(sched)

\* CoreModule.start, lines 186-200: component.start() of the next component,
\* once the start() before it has returned.  When it raises, the error is
\* handed to the error handler and shutdown() is called (it begins here),
\* after which start re-raises; the exception of an error callback leaves
\* start before the shutdown.
StartComponent ==
    /\ core.op = "start"
    /\ core.pos <= Len(Components)
    /\ ToStart = {}
    /\ LET c == Components[core.pos]
           eh == handle_error(core.error_handler, "system_startup", "MEDIUM")
       IN
       /\ IF ~StartRaises(c)
          THEN /\ core' = [core EXCEPT !.pos = @ + 1, !.startlog = Append(@, c)]
               /\ lastCall' = NoCall
          ELSE IF eh.escaped
          THEN /\ core' = [core EXCEPT !.error_handler = eh, !.op = "idle", !.pos = 0,
                                       !.startlog = Append(@, c)]
               /\ lastCall' = Call("start_raised", 0, FALSE)
          ELSE /\ core' = [core EXCEPT !.error_handler = eh, !.shutting_down = TRUE,
                                       !.op = "shutdown", !.pos = Len(Components),
                                       !.resume = -1, !.startlog = Append(@, c),
                                       !.stoplog = << >>]
               /\ lastCall' = NoCall
       /\ IF c = "TaskQueue"
          THEN queue_start
          ELSE UNCHANGED <<stop_event, workers, pool>>
       /\ IF c = "TaskScheduler"
          THEN sched' = scheduler_start(sched)
          ELSE sched' = sched
    /\ UNCHANGED <<tasks, queue, task_handlers, timers, now, store, api>>

\* CoreModule.start, lines 194-195: every component is started
StartEnd ==
    /\ core.op = "start"
    /\ core.pos = Len(Components) + 1
    /\ core' = [core EXCEPT !.running = TRUE, !.op = "idle", !.pos = 0]
    /\ lastCall' = Call("start", 0, TRUE)
    /\ UNCHANGED <<qvars, store, sched, api>>

\* CoreModule.start, line 200: the exception of the component is raised
\* again once the shutdown has returned
StartRaised ==
    /\ core.op = "raise"
    /\ core' = [core EXCEPT !.op = "idle"]
    /\ lastCall' = Call("start_raised", 0, FALSE)
    /\ UNCHANGED <<qvars, store, sched, api>>

\* CoreModule.shutdown, lines 208-212, called while no shutdown is in
\* progress: by a caller when the supervisor is idle, or by the signal handler
\* that interrupts start(), which resumes when the handler returns.
ShutdownBegin ==
    /\ core.op \in {"idle", "start"}
    /\ core' = [core EXCEPT !.shutting_down = TRUE, !.op = "shutdown",
                            !.pos = Len(Components),
                            !.resume = IF core.op = "start" THEN core.pos ELSE 0,
                            !.stoplog = << >>]
    /\ lastCall' = NoCall
    /\ UNCHANGED <<qvars, store, sched, api>>

\* CoreModule.shutdown, lines 208-209, called by the signal handler that
\* interrupts a shutdown in progress: it returns at once
ShutdownEarly ==
    /\ core.op = "shutdown"
    /\ core.shutting_down
    /\ lastCall' = Call("shutdown", 0, FALSE)
    /\ UNCHANGED <<qvars, store, sys>>

\* a shutdown loop that gives up at the first stop() that raises
AfterStopAbort(pos, raised) == IF raised THEN 0 ELSE pos - 1

\* CoreModule.shutdown, lines 215-220: the loop goes on to the component
\* before, whether or not stop() raised
AfterStop(pos, raised) == pos - 1

\* TaskScheduler.stop: scheduler.shutdown() raises when the scheduler is not
\* running; no other component's stop raises
StopRaises(c) == c = "TaskScheduler" /\ ~sched.running

\* CoreModule.shutdown, lines 215-220: component.stop() of the next component
\* in reversed(self._components), once the stop() before it has returned;
\* the stop() of the task queue returns in StopReturn
StopComponent ==
    /\ core.op = "shutdown"
    /\ core.pos >= 1
    /\ ~pool.joining
    /\ LET c == Components[core.pos] IN
       /\ core' = [core EXCEPT !.pos = AfterStop(core.pos, StopRaises(c)),
                               !.stoplog = Append(@, [c |-> c, raised |-> StopRaises(c)])]
       /\ IF c = "TaskQueue"
          THEN queue_stop
          ELSE UNCHANGED <<stop_event, pool>>
       /\ IF c = "TaskScheduler"
          THEN sched' = [sched EXCEPT !.running = FALSE]
          ELSE sched' = sched
    /\ lastCall' = NoCall
    /\ UNCHANGED <<tasks, queue, task_handlers, workers, timers, now, store, api>>

\* CoreModule.shutdown, lines 222-224; the caller goes on: start() where the
\* signal handler interrupted it, the re-raise of start(), or the caller of
\* shutdown
ShutdownEnd ==
    /\ core.op = "shutdown"
    /\ core.pos = 0
    /\ ~pool.joining
    /\ core' = [core EXCEPT !.running = FALSE, !.shutting_down = FALSE,
                            !.op = IF core.resume > 0 THEN "start"
                                   ELSE IF core.resume < 0 THEN "raise" ELSE "idle",
                            !.pos = IF core.resume > 0 THEN core.resume ELSE 0,
                            !.resume = 0]
    /\ lastCall' = Call("shutdown", 0, TRUE)
    /\ UNCHANGED <<qvars, store, sched, api>>

\* ----------------------------------------------------- TaskScheduler calls
\* TaskScheduler.initialize: _register_builtin_tasks
SchedulerInitialize ==
    /\ sched.running \/ Len(sched.pending) + Len(JobIds) <= MaxPending
    /\ sched' = register_builtin_tasks(sched, JobIds)
    /\ core' = core
    /\ lastCall' = Call("scheduler_initialize", 0, ~RegisterRaises(sched))
    /\ UNCHANGED <<qvars, store, api>>

\* TaskScheduler.add_job with the id of built-in job k
AddJob(k) ==
    /\ sched.running \/ Len(sched.pending) < MaxPending
    /\ sched' = add_job(sched, JobIds[k])
    /\ core' = core
    /\ lastCall' = Call("add_job", k, ~AddRaises(sched, JobIds[k]))
    /\ UNCHANGED <<qvars, store, api>>

\* TaskScheduler.remove_job, lines 264-270: False when scheduler.remove_job
\* raises JobLookupError
RemoveJob(k) ==
    /\ sched' = remove_job(sched, JobIds[k])
    /\ core' = core
    /\ lastCall' = Call("remove_job", k, RemoveFound(sched, JobIds[k]))
    /\ UNCHANGED <<qvars, store, api>>

\* TaskScheduler.configure, lines 94-95, with a task_scheduler_max_task_age
SchedulerConfigure(max_task_age) ==
    /\ sched' = [sched EXCEPT !.max_task_age = max_task_age]
    /\ core' = core
    /\ lastCall' = NoCall
    /\ UNCHANGED <<qvars, store, api>>

\* TaskScheduler.start
SchedulerStart ==
    /\ sched' = scheduler_start(sched)
    /\ core' = core
    /\ lastCall' = Call("scheduler_start", 0, ~SchedulerStartRaises(sched))
    /\ UNCHANGED <<qvars, store, api>>

\* scheduler.task_queue = task_queue: the attribute is None after __init__
\* and is assigned by the caller that builds the scheduler
SetTaskQueue ==
    /\ ~sched.task_queue
    /\ sched' = [sched EXCEPT !.task_queue = TRUE]
    /\ core' = core
    /\ lastCall' = NoCall
    /\ UNCHANGED <<qvars, store, api>>

\* The running scheduler fires job k of its job store: _cleanup_task,
\* _retry_failed_tasks, _generate_stats or _db_maintenance, one instance of
\* a job at a time.  Without a task queue the job does nothing; with one,
\* the cleanup job cleans the task map (line 171) and goes on to submit its
\* task in a later step, and every other job submits its
\* SYSTEM_MAINTENANCE task.
Fire(k, read, adv) ==
    /\ sched.running
    /\ JobIds[k] \in sched.jobs
    /\ ~(Jobs[k].cleans /\ sched.cleaning)
    /\ IF ~sched.task_queue
       THEN /\ lastCall' = Call("fire", k, FALSE)
            /\ UNCHANGED <<tasks, queue, now, sys>>
       ELSE IF Jobs[k].cleans
       THEN /\ tasks' = clean_completed_tasks(sched.max_task_age)
            /\ sched' = [sched EXCEPT !.cleaning = TRUE]
            /\ lastCall' = NoCall
            /\ UNCHANGED <<queue, now, core, api>>
       ELSE /\ create_task(tasks, SYSTEM_MAINTENANCE, Jobs[k].action, Jobs[k].priority,
                           NoCallback, read, adv)
            /\ lastCall' = Call("fire", k, TRUE)
            /\ UNCHANGED sys
    /\ UNCHANGED <<task_handlers, stop_event, workers, pool, timers, store>>

\* _cleanup_task, lines 174-181: the cleanup job, having cleaned the task
\* map, submits its task and returns
CleanupSubmit(k, read, adv) ==
    /\ Jobs[k].cleans
    /\ sched.cleaning
    /\ create_task(tasks, SYSTEM_MAINTENANCE, Jobs[k].action, Jobs[k].priority,
                   NoCallback, read, adv)
    /\ sched' = [sched EXCEPT !.cleaning = FALSE]
    /\ lastCall' = Call("fire", k, TRUE)
    /\ UNCHANGED <<task_handlers, stop_event, workers, pool, timers, store, core, api>>

\* --------------------------------------------------- rows and model objects
\* BaseModel.get on thread th: the row as that thread's connection sees it.
Visible(th, r) == IF th = DbWriter THEN rows[r] ELSE NoRow

\* the model object BaseModel.get builds from a row
ObjOf(r, row) ==
    [row |-> r, kind |-> row.kind, message |-> row.message, status |-> row.status,
     error |-> row.error, proceeds |-> FALSE, orphan |-> FALSE]

\* the rows of R that exist
Present(R) == {r \in RowIds : R[r] # NoRow}

\* DELETE of the rows `gone`: the others keep their order
Remove(R, gone) ==
    [r \in RowIds |->
        IF r \in gone \/ R[r] = NoRow THEN NoRow
        ELSE [R[r] EXCEPT !.pos = Cardinality({q \in Present(R) \ gone :
                                                   R[q].pos <= R[r].pos})]]

\* BaseModel.save, lines 104-130: UPDATE of every field of the row that has
\* the object's id, or INSERT of a row with that id after the others
Save(R, obj) ==
    [R EXCEPT ![obj.row] =
        [kind |-> obj.kind, message |-> obj.message, status |-> obj.status,
         error |-> obj.error,
         pos |-> IF R[obj.row] # NoRow THEN R[obj.row].pos
                 ELSE Cardinality(Present(R)) + 1]]

\* BaseModel.save of an object on thread th returns True: the thread gets
\* the write lock and the rows its foreign keys name exist (lines 131-134:
\* any sqlite3.Error makes it False).
Saves(th, obj) == CanWrite(th) /\ ~obj.orphan

\* find_one(message_id=k, channel_id=...), lines 227-228: the first of the
\* rows of the pair in the order of insertion, 0 when it has none
FirstRow(k, kind) ==
    LET found == {r \in RowIds : rows[r].kind = kind /\ rows[r].message = k}
    IN  IF found = {} THEN 0
        ELSE CHOOSE r \in found : \A q \in found : rows[r].pos <= rows[q].pos

\* The id of a new object is a fresh uuid: an id of the model can stand for
\* it when it is the id of no row and of no object (0: none is left).
FreshRow ==
    LET free == {r \in RowIds : rows[r] = NoRow /\ \A o \in ObjIds : objs[o].row # r}
    IN  IF free = {} THEN 0 ELSE CHOOSE r \in free : \A q \in free : r <= q

\* MessageRepository.add_channel_to_message / add_ai_to_message on thread th
\* for message k and channel "c1" (AI channel "a1"); the object returned is
\* kept as o.
AddToMessage(th, o, k, kind, op) ==
    /\ objs[o] = NoObj
    /\ IF ~(th = DbWriter /\ k \in DOMAIN api.messages)
       THEN \* Message.get finds no message: None is returned
            /\ UNCHANGED store
            /\ lastCall' = Call(op, 0, FALSE)
       ELSE IF FirstRow(k, kind) # 0
       THEN \* find_one: the existing row is returned
            /\ objs' = [objs EXCEPT ![o] = ObjOf(FirstRow(k, kind), rows[FirstRow(k, kind)])]
            /\ rows' = rows
            /\ lastCall' = Call(op, FirstRow(k, kind), TRUE)
       ELSE \* the new object is returned whatever its save() returned
            /\ FreshRow # 0
            /\ LET obj == [row |-> FreshRow, kind |-> kind, message |-> k,
                           status |-> "pending", error |-> NoError, proceeds |-> FALSE,
                           orphan |-> ~ParentExists(kind)]
               IN  /\ objs' = [objs EXCEPT ![o] = obj]
                   /\ rows' = IF Saves(th, obj) THEN Save(rows, obj) ELSE rows
                   /\ lastCall' = Call(op, FreshRow, TRUE)
    /\ UNCHANGED <<qvars, sys>>

AddChannelToMessage(th, o, k) == AddToMessage(th, o, k, "channel", "add_channel_to_message")

AddAiToMessage(th, o, k) == AddToMessage(th, o, k, "ai", "add_ai_to_message")

\* MessageChannel.get(id) / MessageAI.get(id) on thread th, kept as o
Load(th, o, r) ==
    /\ objs[o] = NoObj
    /\ IF Visible(th, r) = NoRow
       THEN /\ UNCHANGED store
            /\ lastCall' = Call("get", r, FALSE)
       ELSE /\ objs' = [objs EXCEPT ![o] = ObjOf(r, Visible(th, r))]
            /\ rows' = rows
            /\ lastCall' = Call("get", r, TRUE)
    /\ UNCHANGED <<qvars, sys>>

\* mark_as_* on thread th: set the fields on the object, then return
\* save(); the row changes only when save() wrote it
MarkAs(th, o, op, status, error) ==
    /\ objs[o] # NoObj
    /\ LET saved == Saves(th, objs[o])
           obj == [objs[o] EXCEPT !.status = status, !.error = error,
                                  !.proceeds = saved /\ status = InProgress(objs[o].kind)]
       IN  /\ objs' = [objs EXCEPT ![o] = obj]
           /\ rows' = IF saved THEN Save(rows, obj) ELSE rows
           /\ lastCall' = Call(op, o, saved)
    /\ api' = [api EXCEPT !.writer = WriterAfter(th)]
    /\ UNCHANGED <<qvars, core, sched>>

\* MessageChannel.mark_as_sending
MarkAsSending(th, o) ==
    /\ objs[o].kind = "channel"
    /\ MarkAs(th, o, "mark_as_sending", "sending", objs[o].error)

\* MessageAI.mark_as_processing
MarkAsProcessing(th, o) ==
    /\ objs[o].kind = "ai"
    /\ MarkAs(th, o, "mark_as_processing", "processing", objs[o].error)

\* MessageChannel.mark_as_success / MessageAI.mark_as_success
MarkAsSuccess(th, o) == MarkAs(th, o, "mark_as_success", "success", objs[o].error)

\* MessageChannel.mark_as_failed / MessageAI.mark_as_failed
MarkAsFailed(th, o, err) == MarkAs(th, o, "mark_as_failed", "failed", err)

\* MessageChannel.delete / MessageAI.delete (BaseModel.delete) of object o
\* on thread th: the DELETE removes the row that has the object's id when
\* the thread gets the write lock, and True is returned whether or not there
\* was a row; no table refers to an attempt row, so nothing cascades.  The
\* delete of a channel, a message or a credential, which cascades, is
\* DeleteChannel, DeleteMessage, DeleteToken.
Delete(th, o) ==
    /\ objs[o] # NoObj
    /\ rows' = IF CanWrite(th) THEN Remove(rows, {objs[o].row}) ELSE rows
    /\ objs' = objs
    /\ api' = [api EXCEPT !.writer = WriterAfter(th)]
    /\ lastCall' = Call("delete", o, CanWrite(th))
    /\ UNCHANGED <<qvars, core, sched>>

\* MessageProcessor.retry_failed_messages: message_channel_repo has no
\* get_failed, so the call raises before it reads a row or submits a task.
RetryFailedMessages ==
    /\ lastCall' = Call("retry_failed_messages", 0, FALSE)
    /\ UNCHANGED <<qvars, store, sys>>

\* POST /push with valid parameters: MessageRepository has no create, the
\* exception is caught and the request is answered with code 1005; no row is
\* written and no task is submitted.
PushMessage ==
    /\ lastCall' = Call("push", 0, FALSE)
    /\ UNCHANGED <<qvars, store, sys>>

\* ---------------------------------------------------------- /push, /message
\* the thread that serves a request or calls a repository: the main thread or
\* another one
ServerThreads == {MainThread, 1}
Fields == {"title", "content", "url"}
\* the fields of a request or of a message that are neither missing nor empty
FieldSets == {{}, {"title"}, Fields}
\* the token parameter: absent, naming no row, naming the api_tokens row
TokenParams == {"missing", "unknown", "known"}
\* the channels parameter: ids split at '|'
ChannelParams == {<< >>, <<C2>>, <<C1, C2>>}
\* the default_channels a token is created with
NoDefaults == {<< >>}
\* where validate_push_params finds the parameters: in the query string, the
\* form or a JSON object whose channels is a string ("params"); in a JSON
\* object whose channels is an array ("channel_array"); or the JSON body is
\* no object but [] or null ("no_object")
Bodies == {"params", "channel_array", "no_object"}
\* the id of /message/%20, which is blank
BlankId == 0

\* MessageRepository defines no `create`
HasCreate == FALSE

\* APITokenRepository.create_token(name, default_channels, default_ai,
\* expires_at=e) on thread th
CreateToken(th, e, default_channels, default_ai) ==
    /\ api.token = NoToken
    /\ api' = [api EXCEPT !.writer = WriterAfter(th),
                          !.token = IF CanWrite(th)
                                    THEN [status |-> "enabled", expires_at |-> e,
                                          default_channels |-> default_channels,
                                          default_ai |-> default_ai]
                                    ELSE @]
    /\ lastCall' = Call("create_token", 0, CanWrite(th))
    /\ UNCHANGED <<qvars, store, core, sched>>

\* APITokenRepository.create_token on thread th for another credential
CreateOtherToken(th) ==
    /\ ~api.other_token
    /\ api' = [api EXCEPT !.writer = WriterAfter(th), !.other_token = CanWrite(th)]
    /\ lastCall' = Call("create_other_token", 0, CanWrite(th))
    /\ UNCHANGED <<qvars, store, core, sched>>

\* the arguments of update_token that are not None, as a record of the
\* fields given: enable_token and disable_token give status, set_token_expiry
\* gives expires_at, set_token_default_channels gives default_channels (a
\* list, which may be empty) and set_token_default_ai gives default_ai
TokenChanges ==
    {[status |-> st] : st \in {"enabled", "disabled"}}
        \cup {[expires_at |-> e] : e \in Expiries \ {NoExpiry}}
        \cup {[default_channels |-> d] : d \in {<< >>, <<C1>>, <<C1, C2>>}}
        \cup {[default_ai |-> a] : a \in AiIds}

\* APITokenRepository.update_token, lines 69-82: each argument that is not
\* None replaces the field of the token
update_token(token, changes) ==
    [f \in DOMAIN token |-> IF f \in DOMAIN changes THEN changes[f] ELSE token[f]]

\* APITokenRepository.update_token(id, ...) on thread th: None when
\* APIToken.get finds no row (only the writing thread sees the row), else
\* the fields given are set and the token is saved
UpdateToken(th, changes) ==
    /\ LET found == th = DbWriter /\ api.token # NoToken IN
       /\ api' = [api EXCEPT !.token = IF found THEN update_token(@, changes) ELSE @]
       /\ lastCall' = Call("update_token", 0, found)
    /\ UNCHANGED <<qvars, store, core, sched>>

\* ChannelRepository.create_channel on thread th: a channels row with status
\* enabled is saved.  The model has one channels row, "c1".
CreateChannel(th) ==
    /\ api.channel = "none"
    /\ api' = [api EXCEPT !.writer = WriterAfter(th),
                          !.channel = IF CanWrite(th) THEN "enabled" ELSE @]
    /\ lastCall' = Call("create_channel", 0, CanWrite(th))
    /\ UNCHANGED <<qvars, store, core, sched>>

\* ChannelRepository.update_channel("c1", status=status) on thread th: None
\* when Channel.get finds no row, else the status is set and the row saved
UpdateChannel(th, status) ==
    /\ LET found == th = DbWriter /\ api.channel # "none" IN
       /\ api' = [api EXCEPT !.channel = IF found THEN status ELSE @]
       /\ lastCall' = Call("update_channel", 0, found)
    /\ UNCHANGED <<qvars, store, core, sched>>

\* AIChannelRepository.create_ai_channel on thread th, for the row the model
\* names a
CreateAiChannel(th, a) ==
    /\ api.ai_channel[a] = "none"
    /\ api' = [api EXCEPT !.writer = WriterAfter(th),
                          !.ai_channel[a] = IF CanWrite(th) THEN "enabled" ELSE @]
    /\ lastCall' = Call("create_ai_channel", 0, CanWrite(th))
    /\ UNCHANGED <<qvars, store, core, sched>>

\* AIChannelRepository.update_ai_channel(a, status=status) on thread th
UpdateAiChannel(th, a, status) ==
    /\ LET found == th = DbWriter /\ api.ai_channel[a] # "none" IN
       /\ api' = [api EXCEPT !.ai_channel[a] = IF found THEN status ELSE @]
       /\ lastCall' = Call("update_ai_channel", 0, found)
    /\ UNCHANGED <<qvars, store, core, sched>>

\* the ids of the rows of channels ("c1") and of ai_channels
ChannelIds(kind) == IF kind = "channel" THEN {C1} ELSE AiIds

\* ChannelRepository.delete_channel(id) / AIChannelRepository.
\* delete_ai_channel(id) on thread th: False when get finds no row; else
\* the row is deleted, and ON DELETE CASCADE (core.py lines 232 and 250)
\* deletes the attempt rows that name it; the objects that name it can be
\* saved no more, a channel created later having another id.  The rows and
\* objects of the store name "c1" and RowAi.
DeleteChannel(th, kind, id) ==
    LET found == /\ th = DbWriter
                 /\ IF kind = "channel" THEN api.channel # "none"
                    ELSE api.ai_channel[id] # "none"
        named == found /\ id = (IF kind = "channel" THEN C1 ELSE RowAi)
        other(row) == row.channel_id # id
    IN  /\ rows' = IF named THEN Remove(rows, {r \in RowIds : rows[r].kind = kind}) ELSE rows
        /\ objs' = [o \in ObjIds |->
                       IF named /\ objs[o].kind = kind
                       THEN [objs[o] EXCEPT !.orphan = TRUE] ELSE objs[o]]
        /\ api' = IF ~found THEN api
                  ELSE IF kind = "channel"
                  THEN [api EXCEPT !.channel = "none",
                                   !.message_channels = SelectSeq(@, other)]
                  ELSE [api EXCEPT !.ai_channel[id] = "none",
                                   !.message_ai = SelectSeq(@, other)]
        /\ lastCall' = Call("delete_channel", 0, found)
        /\ UNCHANGED <<qvars, core, sched>>

\* Message k of the model is the k-th messages row in the order of
\* insertion: the number it has once the rows `gone` are deleted
Rank(k, gone) == k - Cardinality({j \in gone : j < k})

\* DELETE of the messages rows `gone`: ON DELETE CASCADE (core.py lines 231
\* and 249) deletes their message_channels and message_ai rows
DropMessages(a, gone) ==
    LET kept == DOMAIN a.messages \ gone
        stays(row) == row.message_id \notin gone
        moved(table) ==
            [i \in DOMAIN table |-> [table[i] EXCEPT !.message_id = Rank(@, gone)]]
    IN  [a EXCEPT !.messages = [i \in 1..Cardinality(kept) |->
                                   a.messages[CHOOSE k \in kept : Rank(k, gone) = i]],
                  !.message_channels = moved(SelectSeq(@, stays)),
                  !.message_ai = moved(SelectSeq(@, stays))]

\* the attempt rows once the messages `gone` are deleted
DropRows(R, gone) ==
    LET left == Remove(R, {r \in RowIds : R[r].message \in gone})
    IN  [r \in RowIds |->
            IF left[r] = NoRow THEN NoRow
            ELSE [left[r] EXCEPT !.message = Rank(@, gone)]]

\* the model objects once the messages `gone` are deleted: those of a
\* deleted message can be saved no more
DropObjs(O, gone) ==
    [o \in ObjIds |->
        IF O[o] = NoObj THEN NoObj
        ELSE IF O[o].message \in gone THEN [O[o] EXCEPT !.orphan = TRUE]
        ELSE [O[o] EXCEPT !.message = Rank(@, gone)]]

\* BaseModel.delete of the Message object of message k on thread th: the
\* DELETE removes the row, with the attempt rows that name it, when the
\* thread gets the write lock, and True is returned whether or not there was
\* a row
DeleteMessage(th, k) ==
    /\ LET gone == IF CanWrite(th) THEN {k} \cap DOMAIN api.messages ELSE {} IN
       /\ rows' = DropRows(rows, gone)
       /\ objs' = DropObjs(objs, gone)
       /\ api' = [DropMessages(api, gone) EXCEPT !.writer = WriterAfter(th)]
    /\ lastCall' = Call("delete_message", k, CanWrite(th))
    /\ UNCHANGED <<qvars, core, sched>>

\* APITokenRepository.delete_token(id) on thread th, of the credential
\* (owned) or of the other credential: False when APIToken.get finds no
\* row; else the row is deleted, and ON DELETE CASCADE (core.py line 216)
\* deletes that credential's messages with their attempt rows
DeleteToken(th, owned) ==
    /\ LET found == /\ th = DbWriter
                    /\ IF owned THEN api.token # NoToken ELSE api.other_token
           gone == IF found
                   THEN {k \in DOMAIN api.messages : api.messages[k].owned = owned}
                   ELSE {}
       IN  /\ rows' = DropRows(rows, gone)
           /\ objs' = DropObjs(objs, gone)
           /\ api' = [DropMessages(api, gone) EXCEPT
                         !.token = IF found /\ owned THEN NoToken ELSE @,
                         !.other_token = IF found /\ ~owned THEN FALSE ELSE @]
           /\ lastCall' = Call("delete_token", 0, found)
    /\ UNCHANGED <<qvars, core, sched>>

\* what a closed connection leaves of its uncommitted transaction: nothing
Rollback(a) ==
    [a EXCEPT !.writer = NoWriter, !.token = NoToken, !.other_token = FALSE,
              !.channel = "none", !.ai_channel = [i \in AiIds |-> "none"],
              !.messages = << >>, !.message_channels = << >>, !.message_ai = << >>]

\* close_db() on thread th closes that thread's connection: when it held
\* the write lock, its transaction is rolled back and the lock released;
\* no object can be saved any more, the rows made later having other ids
CloseDb(th) ==
    /\ rows' = IF th = DbWriter THEN [r \in RowIds |-> NoRow] ELSE rows
    /\ objs' = [o \in ObjIds |->
                   IF th = DbWriter /\ objs[o] # NoObj
                   THEN [objs[o] EXCEPT !.orphan = TRUE] ELSE objs[o]]
    /\ api' = IF th = DbWriter THEN Rollback(api) ELSE api
    /\ lastCall' = Call("close_db", th, th = DbWriter)
    /\ UNCHANGED <<qvars, core, sched>>

\* MessageRepository.create_message(api_token_id, title, content, url) on
\* thread th: Message(...).save() with no test of the content; `owned` tells
\* whether api_token_id is the credential's id or another credential's.  The
\* INSERT fails when api_tokens has no such row (core.py line 216).
CreateMessage(th, fields, owned) ==
    /\ Len(api.messages) < MaxMessages
    /\ LET saved == /\ CanWrite(th)
                    /\ IF owned THEN api.token # NoToken ELSE api.other_token
       IN  /\ api' = [api EXCEPT !.writer = WriterAfter(th),
                                 !.messages = IF saved
                                              THEN Append(@, [fields |-> fields,
                                                              owned |-> owned])
                                              ELSE @]
           /\ lastCall' = Call("create_message", Len(api.messages) + 1, saved)
    /\ UNCHANGED <<qvars, store, core, sched>>

\* APIToken.find_by_token on thread th
FindByToken(th, token) ==
    IF token = "known" /\ th = DbWriter THEN api.token ELSE NoToken

\* APIToken.is_expired, lines 123-125: comparing datetime.now() with a time
\* that carries a UTC offset raises TypeError
ExpiryRaises(e) == e.kind = "aware"

\* APIToken.is_expired at time t
is_expired(e, t) == e.kind = "naive" /\ t > e.at

\* require_token: "1001", "raises" or "admit"
Admission(th, token) ==
    LET api_token == FindByToken(th, token) IN
    IF token = "missing" THEN "1001"
    ELSE IF api_token = NoToken THEN "1001"
    ELSE IF api_token.status # "enabled" THEN "1001"
    ELSE IF ExpiryRaises(api_token.expires_at) THEN "raises"
    ELSE IF is_expired(api_token.expires_at, now) THEN "1001"
    ELSE "admit"

\* json.dumps(list) of a list of ids, as a string of characters
RECURSIVE JsonItems(_)
JsonItems(list) ==
    IF list = << >> THEN << >>
    ELSE <<"\"">> \o Head(list) \o <<"\"">>
            \o (IF Len(list) > 1 THEN <<",", " ">> ELSE << >>)
            \o JsonItems(Tail(list))
JsonDumps(list) == <<"[">> \o JsonItems(list) \o <<"]">>

\* routes.py lines 78-81 and 99-101: api_token.default_channels is the JSON
\* text of the column (create_token stores json.dumps(list) or "[]"), a
\* string that is never empty; the loop over it takes each character for a
\* channel id
DefaultChannels(api_token) ==
    LET text == JsonDumps(api_token.default_channels)
    IN  [k \in DOMAIN text |-> <<text[k]>>]

\* ChannelRepository.get_channel(c) on thread th finds an enabled channel
ChannelEnabled(th, c) == c = C1 /\ th = DbWriter /\ api.channel = "enabled"

\* AIChannelRepository.get_ai_channel(a) on thread th finds an enabled channel
AiEnabled(th, a) == a \in AiIds /\ th = DbWriter /\ api.ai_channel[a] = "enabled"

\* push_message after require_token admitted the request: the response and
\* the messages rows
PushHandler(th, body, fields, channels, ai) ==
    IF body = "no_object"
    THEN \* validators.py line 35: params.get raises AttributeError outside
         \* every try, and the request ends in HTTP 500 without a code
         [resp |-> Resp(NoCode, 500, TRUE, << >>), messages |-> api.messages]
    ELSE IF fields = {}
    THEN [resp |-> Resp(1002, 400, TRUE, << >>), messages |-> api.messages]
    ELSE IF body = "channel_array" /\ channels # << >>
    THEN \* validators.py lines 53-61: channels.split raises, code 1002
         [resp |-> Resp(1002, 400, TRUE, << >>), messages |-> api.messages]
    ELSE IF ~HasCreate
    THEN \* line 96 raises AttributeError, caught at line 178
         [resp |-> Resp(1005, 500, TRUE, << >>), messages |-> api.messages]
    ELSE LET api_token == FindByToken(th, "known")
             channel_list == IF channels = << >> THEN DefaultChannels(api_token)
                             ELSE channels
             ai_channel == IF ai # NoAi THEN ai ELSE api_token.default_ai
             enabled(c) == ChannelEnabled(th, c)
             valid_channels == SelectSeq(channel_list, enabled)
             created == Append(api.messages, [fields |-> fields, owned |-> TRUE])
         IN  IF valid_channels = << >>
             THEN [resp |-> Resp(1003, 400, TRUE, << >>), messages |-> created]
             ELSE IF ai_channel # NoAi /\ ~AiEnabled(th, ai_channel)
             THEN [resp |-> Resp(1004, 400, TRUE, << >>), messages |-> created]
             ELSE \* add_channel and save_ai_result write nothing; the task
                  \* goes to a TaskQueue() of its own
                  [resp |-> [Resp(0, 200, TRUE, valid_channels) EXCEPT !.ai = ai_channel],
                   messages |-> created]

\* a /push that writes the message_channels row of its first channel before
\* it validates the request and creates the message
PushAttemptFirst(th, token, body, fields, channels, ai) ==
    /\ LET a == Admission(th, token)
           out == IF a = "1001"
                  THEN [resp |-> Resp(1001, 401, FALSE, << >>), messages |-> api.messages]
                  ELSE IF a = "raises"
                  THEN [resp |-> Resp(NoCode, 500, FALSE, << >>), messages |-> api.messages]
                  ELSE PushHandler(th, body, fields, channels, ai)
           row == [message_id |-> Len(api.messages) + 1, channel_id |-> Head(channels),
                   status |-> "pending"]
       IN  /\ Len(out.messages) <= MaxMessages
           /\ api' = [api EXCEPT !.resp = out.resp, !.messages = out.messages,
                                 !.message_channels =
                                     IF out.resp.ran /\ channels # << >> /\ @ = << >>
                                     THEN <<row>> ELSE @,
                                 !.req = [token |-> token, body |-> body,
                                          fields |-> fields,
                                          channels |-> channels, ai |-> ai]]
           /\ lastCall' = Call("push", 0, out.resp.code = 0)
    /\ UNCHANGED <<qvars, store, core, sched>>

\* a request to /push on thread th
Push(th, token, body, fields, channels, ai) ==
    /\ LET a == Admission(th, token)
           out == IF a = "1001"
                  THEN [resp |-> Resp(1001, 401, FALSE, << >>), messages |-> api.messages]
                  ELSE IF a = "raises"
                  THEN [resp |-> Resp(NoCode, 500, FALSE, << >>), messages |-> api.messages]
                  ELSE PushHandler(th, body, fields, channels, ai)
       IN  /\ Len(out.messages) <= MaxMessages
           /\ api' = [api EXCEPT !.resp = out.resp, !.messages = out.messages,
                                 !.req = [token |-> token, body |-> body,
                                          fields |-> fields,
                                          channels |-> channels, ai |-> ai]]
           /\ lastCall' = Call("push", 0, out.resp.code = 0)
    /\ UNCHANGED <<qvars, store, core, sched>>

\* get_message_status after require_token admitted the request for message
\* k: validate_message_id answers a blank id with 1006 and HTTP 400 (lines
\* 198-200); then 1006 with HTTP 404 when no row is found, 1001 when another
\* credential owns it; then message.get_message_channels(), which Message
\* does not define, raises
MessageHandler(th, k) ==
    IF k = BlankId THEN Resp(1006, 400, TRUE, << >>)
    ELSE IF ~(th = DbWriter /\ k \in DOMAIN api.messages) THEN Resp(1006, 404, TRUE, << >>)
    ELSE IF ~api.messages[k].owned THEN Resp(1001, 403, TRUE, << >>)
    ELSE Resp(1005, 500, TRUE, << >>)

\* a request to /message/<k> on thread th
GetMessage(th, token, k) ==
    /\ LET a == Admission(th, token) IN
       api' = [api EXCEPT !.resp = IF a = "1001" THEN Resp(1001, 401, FALSE, << >>)
                                   ELSE IF a = "raises" THEN Resp(NoCode, 500, FALSE, << >>)
                                   ELSE MessageHandler(th, k),
                          !.req = [token |-> token, body |-> "params", fields |-> {},
                                   channels |-> << >>, ai |-> NoAi]]
    /\ lastCall' = Call("get_message", k, FALSE)
    /\ UNCHANGED <<qvars, store, core, sched>>

\* The API with the repositories that fill its tables, as time passes.  A
\* request whose token names no credential is refused before its parameters
\* are read, so its parameters are not varied.
NextApi ==
    \/ \E th \in ServerThreads, e \in Expiries, d \in NoDefaults :
          CreateToken(th, e, d, NoAi)
    \/ CreateOtherToken(MainThread)
    \/ \E th \in ServerThreads, changes \in TokenChanges :
          /\ DOMAIN changes \subseteq {"status", "expires_at"}
          /\ DOMAIN changes = {"expires_at"} => th = MainThread
          /\ UpdateToken(th, changes)
    \/ CreateChannel(MainThread)
    \/ \E status \in {"enabled", "disabled"} : UpdateChannel(MainThread, status)
    \/ \E th \in ServerThreads, fields \in FieldSets, owned \in BOOLEAN :
          CreateMessage(th, fields, owned)
    \/ Tick
    \/ \E th \in ServerThreads, token \in TokenParams, body \in Bodies,
          fields \in FieldSets, channels \in ChannelParams :
          /\ token # "known" => (body = "params" /\ fields = {"title"} /\ channels = << >>)
          /\ body = "no_object" => (fields = {} /\ channels = << >>)
          /\ body = "channel_array" => fields = {"title"}
          /\ Push(th, token, body, fields, channels, NoAi)
    \/ \E th \in ServerThreads, token \in TokenParams, k \in MsgIds \cup {BlankId} :
          /\ k = BlankId => token = "known"
          /\ GetMessage(th, token, k)

SpecApi == Init /\ [][NextApi]_vars

\* ----------------------------------------- message_channels, message_ai rows
\* Message.get(message_id) on thread th finds the row
MessageFound(th, message_id) == th = DbWriter /\ message_id \in DOMAIN api.messages

\* the foreign keys of message_channels and message_ai (PRAGMA foreign_keys =
\* ON): an INSERT naming a channel without a row fails, and save() returns
\* False
ChannelExists(c) == c = C1 /\ api.channel # "none"
AiExists(a) == a \in AiIds /\ api.ai_channel[a] # "none"

\* a find_one that never finds a row
FindNone(table, message_id, channel_id) == 0

\* the index of the first row of a table with the given keys, 0 when
\* find_one returns None
FindOne(table, message_id, channel_id) ==
    LET found == {i \in DOMAIN table : /\ table[i].message_id = message_id
                                       /\ table[i].channel_id = channel_id}
    IN  IF found = {} THEN 0 ELSE CHOOSE i \in found : \A j \in found : i <= j

\* MessageRepository.add_channel_to_message / add_ai_to_message on thread th
\* into table `field`: None when the message is not found, the existing row
\* when find_one finds one, else a new object with status pending, saved.
\* The call is observed with the index of the row returned (0 for None and
\* for an object that was not stored) and with whether a row was inserted.
AddRow(th, field, message_id, channel_id, exists, op) ==
    /\ LET table == api[field]
           existing == FindOne(table, message_id, channel_id)
           row == [message_id |-> message_id, channel_id |-> channel_id,
                   status |-> "pending"]
       IN  IF ~MessageFound(th, message_id)
           THEN api' = api /\ lastCall' = Call(op, 0, FALSE)
           ELSE IF existing # 0
           THEN api' = api /\ lastCall' = Call(op, existing, FALSE)
           ELSE IF ~exists
           THEN api' = api /\ lastCall' = Call(op, 0, FALSE)
           ELSE /\ api' = [api EXCEPT ![field] = Append(table, row)]
                /\ lastCall' = Call(op, Len(table) + 1, TRUE)
    /\ UNCHANGED <<qvars, store, core, sched>>

add_channel_to_message(th, message_id, channel_id) ==
    AddRow(th, "message_channels", message_id, channel_id, ChannelExists(channel_id),
           "add_channel_to_message")

add_ai_to_message(th, message_id, ai_channel_id) ==
    AddRow(th, "message_ai", message_id, ai_channel_id, AiExists(ai_channel_id),
           "add_ai_to_message")

\* MessageProcessor.create_message: message_repo is None (initialize() fails
\* to import the repositories and leaves it so), and the first call on it
\* raises AttributeError before a row is written or a task submitted
ProcessorCreateMessage ==
    /\ lastCall' = Call("processor_create_message", 0, FALSE)
    /\ UNCHANGED <<qvars, store, sys>>

\* /push beside a credential with default channels and a default AI channel:
\* the lists a token is created with, the channels lists of a request (one
\* repeats an id) and its ai parameter (no ai_channels row "a2" is created)
DefaultLists == {<< >>, <<C1>>, <<C1, C2>>}
PushLists == ChannelParams \cup {<<C1, C1>>}
AiParams == {NoAi, "a1", "a2"}

NextPush ==
    \/ \E th \in ServerThreads, d \in DefaultLists, a \in AiParams :
          CreateToken(th, NoExpiry, d, a)
    \/ \E changes \in TokenChanges :
          /\ DOMAIN changes \subseteq {"default_channels", "default_ai"}
          /\ UpdateToken(MainThread, changes)
    \/ CreateChannel(MainThread)
    \/ \E status \in {"enabled", "disabled"} : UpdateChannel(MainThread, status)
    \/ CreateAiChannel(MainThread, "a1")
    \/ \E status \in {"enabled", "disabled"} : UpdateAiChannel(MainThread, "a1", status)
    \/ \E th \in ServerThreads, token \in TokenParams, body \in Bodies,
          fields \in FieldSets, channels \in PushLists, ai \in AiParams :
          /\ token # "known" =>
                (body = "params" /\ fields = {"title"} /\ channels = << >> /\ ai = NoAi)
          /\ body = "no_object" => (fields = {} /\ channels = << >> /\ ai = NoAi)
          /\ body = "channel_array" => (fields = {"title"} /\ ai = NoAi)
          /\ Push(th, token, body, fields, channels, ai)

SpecPush == Init /\ [][NextPush]_vars

\* the content of a message, as a string of codepoints
RECURSIVE Strings(_)
Strings(n) ==
    IF n = 0 THEN {<< >>}
    ELSE Strings(n - 1) \cup {Append(t, ch) : t \in Strings(n - 1), ch \in {"a", "b"}}
Contents == Strings(MaxContent)

\* MessageProcessor._handle_send_message(task), the task naming a message
\* with the given content and a channel with the given max_length: the
\* handler builds and sends no request and returns {"status": "success"}
HandleSendMessage(content, max_length) ==
    /\ api' = [api EXCEPT !.dispatch = [content |-> content, max_length |-> max_length]]
    /\ lastCall' = Call("handle_send_message", 0, TRUE)
    /\ UNCHANGED <<qvars, store, core, sched>>

NextDispatch ==
    \E content \in Contents, max_length \in 1..MaxLength :
        HandleSendMessage(content, max_length)

SpecDispatch == Init /\ [][NextDispatch]_vars

\* the message ids of a call: those of the rows and one of no row
MessageIds == 1..(MaxMessages + 1)

\* The repositories that write the attempt rows, /push and
\* MessageProcessor.create_message, called from the main thread and from
\* another one.
NextAttempts ==
    \/ \E th \in ServerThreads, e \in {NoExpiry}, d \in NoDefaults :
          CreateToken(th, e, d, NoAi)
    \/ CreateOtherToken(MainThread)
    \/ CreateChannel(MainThread)
    \/ \E status \in {"enabled", "disabled"} : UpdateChannel(MainThread, status)
    \/ \E a \in AiIds : CreateAiChannel(MainThread, a)
    \/ \E a \in AiIds, status \in {"enabled", "disabled"} :
          UpdateAiChannel(MainThread, a, status)
    \/ \E th \in ServerThreads, owned \in BOOLEAN : CreateMessage(th, {"title"}, owned)
    \/ \E th \in ServerThreads, k \in MessageIds : DeleteMessage(th, k)
    \/ \E th \in ServerThreads, owned \in BOOLEAN : DeleteToken(th, owned)
    \/ \E th \in ServerThreads, kind \in RowKinds :
          \E id \in ChannelIds(kind) : DeleteChannel(th, kind, id)
    \/ \E th \in ServerThreads, k \in MessageIds, c \in {C1, C2} :
          add_channel_to_message(th, k, c)
    \/ \E th \in ServerThreads, k \in MessageIds, a \in AiIds :
          add_ai_to_message(th, k, a)
    \/ \E th \in ServerThreads, channels \in PushLists, ai \in {NoAi, "a1"} :
          Push(th, "known", "params", {"title"}, channels, ai)
    \/ ProcessorCreateMessage

SpecAttempts == Init /\ [][NextAttempts]_vars

\* The task queue with its callers: the pool is started once, and stopped
\* once start() has returned; tasks of one priority, stamped by a clock that
\* advances between submissions (at most MaxSubmitted of them); callers
\* cancel and retry any id.
Next ==
    \/ NeverStarted /\ Returned /\ Start
    \/ \E w \in Threads : SpawnWorker(w)
    \/ Returned /\ ~stop_event /\ Stop
    \/ StopReturn
    \/ \E ty \in TaskTypes : RegisterTaskHandler(ty)
    \/ \E ty \in TaskTypes :
          Cardinality(DOMAIN tasks) < MaxSubmitted /\ CreateTask(ty, NORMAL, Clock(1), 1)
    \/ \E id \in TaskIds : CancelTask(id)
    \/ \E id \in TaskIds : RetryTask(id)
    \/ \E id \in TaskIds : TimerFire(id)
    \/ \E w \in Threads : WorkerStep(w, HandlerErrors)

Spec == Init /\ [][Next]_vars



\* The running pool: every handler is registered and the workers have been
\* started.
InitRunning ==
    /\ tasks = << >>
    /\ queue = << >>
    /\ task_handlers = TaskTypes
    /\ stop_event = FALSE
    /\ workers = [w \in Threads |->
                    IF w <= MaxWorkers THEN [pc |-> "loop", task |-> 0]
                    ELSE [pc |-> "unstarted", task |-> 0]]
    /\ pool = [NewPool EXCEPT !.workers = 1..MaxWorkers]
    /\ timers = [i \in TaskIds |-> 0]
    /\ now = 0
    /\ lastCall = NoCall
    /\ rows = [r \in RowIds |-> NoRow]
    /\ objs = [o \in ObjIds |-> NoObj]
    /\ core = NewCore
    /\ api = NewApi
    /\ sched = NewSched


\* the exceptions of the handlers of a running pool: an Exception, or one
\* that `except Exception` does not catch
ServeErrors == {"transient"} \cup BaseExceptions

\* the steps of a worker of a pool whose task types all have a handler: the
\* handler returns, raises an Exception, or raises SystemExit and ends the
\* thread
WorkerServe(w) ==
    \/ WorkerLoop(w)
    \/ WorkerEmpty(w)
    \/ WorkerGet(w)
    \/ WorkerTest(w)
    \/ WorkerBegin(w)
    \/ WorkerLookup(w)
    \/ HandlerReturn(w)
    \/ \E err \in ServeErrors : HandlerRaise(w, err)
    \/ WorkerRetryCheck(w)

\* The running pool fed with tasks of every priority by callers whose
\* create_task calls overlap: a task may carry a time stamp older than, or
\* equal to, that of a task added before it; nobody cancels or retries by
\* hand.  A caller's stamp is the time of its add_task or the oldest one.
NextPrio ==
    \/ \E ty \in TaskTypes, p \in Priorities, read \in {0, Clock(1)} :
          CreateTask(ty, p, read, 1)
    \/ \E id \in TaskIds : TimerFire(id)
    \/ \E w \in Threads : WorkerServe(w)

SpecPrio == InitRunning /\ [][NextPrio]_vars

\* The task queue with callers of add_task: the pool is running; the callers
\* build Task objects with a retry_count and a max_retries of their own
\* (retry_count within max_retries, as the queue keeps it), add them, and
\* may add an object again; failed tasks are retried by the timer and by
\* hand.
NextSubmit ==
    \/ \E ty \in TaskTypes, max_retries \in 0..MaxRetries, retry_count \in 0..MaxRetries :
          /\ Cardinality(DOMAIN tasks) < MaxSubmitted
          /\ retry_count <= max_retries
          /\ AddTask(ty, NORMAL, retry_count, max_retries, Clock(1), 1)
    \/ \E id \in TaskIds : AddTaskAgain(id)
    \/ \E id \in TaskIds : RetryTask(id)
    \/ \E id \in TaskIds : TimerFire(id)
    \/ \E w \in Threads : WorkerServe(w)

SpecSubmit == InitRunning /\ [][NextSubmit]_vars

\* The running pool fed without end: tasks of every priority keep being
\* submitted (one Low and one High task at a time) as finished tasks are
\* cleaned away whatever their age (max_age = -1).
\* Every worker thread that is alive keeps being scheduled and every retry
\* timer fires.
NextFeed ==
    \/ \E ty \in TaskTypes, p \in Priorities :
          /\ p # NORMAL => \A i \in DOMAIN tasks : tasks[i].priority # p
          /\ CreateTask(ty, p, Clock(1), 1)
    \/ CleanCompletedTasks(-1)
    \/ \E id \in TaskIds : TimerFire(id)
    \/ \E w \in Threads : WorkerServe(w)

SpecFeed ==
    /\ InitRunning
    /\ [][NextFeed]_vars
    /\ \A w \in Threads : WF_vars(WorkerServe(w))
    /\ \A id \in TaskIds : WF_vars(TimerFire(id))

\* The pool under a caller that calls start(), stop() and get_status() in
\* any order, one call after the other (start() tests nothing, and stop()
\* returns after joins of 2 s each, whether or not the workers have exited),
\* with tasks submitted along the way.
NextPool ==
    \/ Returned /\ Start
    \/ \E w \in Threads : SpawnWorker(w)
    \/ Returned /\ ~stop_event /\ Stop
    \/ StopReturn
    \/ Returned /\ GetStatus
    \/ \E ty \in TaskTypes : RegisterTaskHandler(ty)
    \/ \E ty \in TaskTypes :
          /\ Cardinality(DOMAIN tasks) < MaxSubmitted
          /\ CreateTask(ty, NORMAL, Clock(1), 1)
    \/ \E id \in TaskIds : TimerFire(id)
    \/ \E w \in Threads : WorkerStep(w, {"transient"})

SpecPool == Init /\ [][NextPool]_vars

\* The supervisor with its callers and the termination signals; a caller
\* may start the scheduler itself or close the main thread's database
\* connection; the workers the supervisor starts find the queue empty.
NextCore ==
    \/ Initialize
    \/ CoreStart
    \/ StartComponent
    \/ StartEnd
    \/ StartRaised
    \/ ShutdownBegin
    \/ ShutdownEarly
    \/ StopComponent
    \/ StopReturn
    \/ ShutdownEnd
    \/ core.op = "idle" /\ ~sched.running /\ SchedulerStart
    \/ core.op = "idle" /\ DbWriter = MainThread /\ CloseDb(MainThread)
    \/ \E w \in Threads : core.op = "start" /\ SpawnWorker(w)
    \/ \E w \in Threads : WorkerLoop(w) \/ WorkerEmpty(w) \/ WorkerExit(w)

SpecCore == Init /\ [][NextCore]_vars

\* a caller invoking error_handler.handle_error; the call, whether it
\* returns or ends in the exception of a callback (core.error_handler.escaped),
\* is observed with the length of the history before it and with whether a
\* record was dropped
HandleError(error_type, severity) ==
    /\ core' = [core EXCEPT !.error_handler = handle_error(@, error_type, severity)]
    /\ lastCall' = Call("handle_error", Len(core.error_handler.error_history),
                        Len(core.error_handler.error_history) + 1
                            > core.error_handler.max_error_history)
    /\ UNCHANGED <<qvars, store, sched, api>>

\* ErrorHandler.clear_error_history
ClearErrorHistory ==
    /\ core.error_handler.error_history # << >>
    /\ core' = [core EXCEPT !.error_handler.error_history = << >>]
    /\ lastCall' = Call("clear_error_history", 0, TRUE)
    /\ UNCHANGED <<qvars, store, sched, api>>

\* ErrorHandler.reset_error_counters
ResetErrorCounters ==
    /\ \E s \in Severities : core.error_handler.error_counters[s] # 0
    /\ core' = [core EXCEPT !.error_handler.error_counters = [s \in Severities |-> 0]]
    /\ lastCall' = Call("reset_error_counters", 0, TRUE)
    /\ UNCHANGED <<qvars, store, sched, api>>

\* the error types of the callers and the thresholds an error handler is
\* configured with
ErrorTypes == {"system_initialization", "system_startup"}
Thresholds ==
    {DefaultThreshold,
     [s \in Severities |-> IF s = "LOW" THEN 3 ELSE IF s = "MEDIUM" THEN 2 ELSE 1]}

\* An error handler built with any of the configurations.
InitErrors ==
    /\ tasks = << >>
    /\ queue = << >>
    /\ task_handlers = {}
    /\ stop_event = FALSE
    /\ workers = [w \in Threads |-> [pc |-> "unstarted", task |-> 0]]
    /\ pool = NewPool
    /\ timers = [i \in TaskIds |-> 0]
    /\ now = 0
    /\ lastCall = NoCall
    /\ rows = [r \in RowIds |-> NoRow]
    /\ objs = [o \in ObjIds |-> NoObj]
    /\ \E h \in 0..MaxHistory, th \in Thresholds :
          core = [NewCore EXCEPT !.error_handler = NewErrorHandler(h, th)]
    /\ api = NewApi
    /\ sched = NewSched

NextErrors ==
    \/ \E error_type \in ErrorTypes, severity \in Severities :
          HandleError(error_type, severity)
    \/ ClearErrorHistory
    \/ ResetErrorCounters

SpecErrors == InitErrors /\ [][NextErrors]_vars

\* ErrorHandler.register_error_callback
RegisterErrorCallback(error_type, callback) ==
    /\ Len(CallbacksOf(core.error_handler, error_type)) < MaxCallbacks
    /\ core' = [core EXCEPT !.error_handler =
                    register_error_callback(@, error_type, callback)]
    /\ lastCall' = Call("register_error_callback", 0, TRUE)
    /\ UNCHANGED <<qvars, store, sched, api>>

\* The error handler of CoreModule with callbacks registered for the error
\* types, one of them twice or for both types, while errors are handled.
NextErrorCallbacks ==
    \/ \E error_type \in ErrorTypes, callback \in ErrorCallbacks :
          RegisterErrorCallback(error_type, callback)
    \/ \E error_type \in ErrorTypes \cup {"task_failed"}, severity \in {"MEDIUM", "HIGH"} :
          HandleError(error_type, severity)

SpecErrorCallbacks == Init /\ [][NextErrorCallbacks]_vars

\* the tasks submitted, with the one a cleanup job in progress is about to
\* submit
Submitting == Cardinality(DOMAIN tasks) + IF sched.cleaning THEN 1 ELSE 0

\* the steps of a worker on tasks whose type has no handler
WorkerUnhandled(w) ==
    \/ WorkerLoop(w)
    \/ WorkerEmpty(w)
    \/ WorkerGet(w)
    \/ WorkerTest(w)
    \/ WorkerBegin(w)
    \/ WorkerLookup(w)
    \/ HandlerMissing(w)
    \/ WorkerRetryCheck(w)

\* The scheduler beside a started task queue: the scheduler is initialized,
\* started and given the task queue in any order; one attempt row is written
\* and marked, through one object or two, before the first task is submitted;
\* the jobs fire while the scheduler runs.
NextSched ==
    \/ NeverStarted /\ Start
    \/ \E w \in Threads : SpawnWorker(w)
    \/ sched.pending = << >> /\ sched.jobs = {} /\ SchedulerInitialize
    \/ ~sched.running /\ SchedulerStart
    \/ SetTaskQueue
    \/ \E k \in DOMAIN Jobs : Submitting < MaxSubmitted /\ Fire(k, Clock(1), 1)
    \/ \E k \in DOMAIN Jobs : CleanupSubmit(k, Clock(1), 1)
    \/ \E o \in ObjIds, k \in MsgIds :
          /\ DOMAIN tasks = {}
          /\ Present(rows) = {} \/ FirstRow(k, "channel") # 0
          /\ AddChannelToMessage(MainThread, o, k)
    \/ \E o \in ObjIds, k \in MsgIds :
          /\ DOMAIN tasks = {}
          /\ Present(rows) = {} \/ FirstRow(k, "ai") # 0
          /\ AddAiToMessage(MainThread, o, k)
    \/ \E o \in ObjIds : DOMAIN tasks = {} /\ MarkAsSending(MainThread, o)
    \/ \E o \in ObjIds : DOMAIN tasks = {} /\ MarkAsProcessing(MainThread, o)
    \/ \E o \in ObjIds, err \in RowErrors :
          DOMAIN tasks = {} /\ MarkAsFailed(MainThread, o, err)
    \/ \E id \in TaskIds : TimerFire(id)
    \/ \E w \in Threads : WorkerUnhandled(w)

SpecSched == InitSeeded /\ [][NextSched]_vars

\* TaskScheduler.stop: scheduler.shutdown() raises on a stopped scheduler
SchedulerStop ==
    /\ sched' = [sched EXCEPT !.running = FALSE]
    /\ core' = core
    /\ lastCall' = Call("scheduler_stop", 0, sched.running)
    /\ UNCHANGED <<qvars, store, api>>

\* The scheduler beside a running task queue whose workers have a handler
\* for the tasks of the jobs: before the first task is submitted the cleanup
\* job and the statistics job are added and removed by id and the scheduler
\* is started and stopped; max_task_age is configured and the two jobs fire.
NextJobs ==
    \/ RegisterTaskHandler(SYSTEM_MAINTENANCE)
    \/ DOMAIN tasks = {} /\ SchedulerInitialize
    \/ DOMAIN tasks = {} /\ SchedulerStart
    \/ DOMAIN tasks = {} /\ SchedulerStop
    \/ SetTaskQueue
    \/ \E k \in {1, 3} : DOMAIN tasks = {} /\ AddJob(k)
    \/ \E k \in {1, 3} : DOMAIN tasks = {} /\ RemoveJob(k)
    \/ \E max_task_age \in {MaxTaskAge, -1} : SchedulerConfigure(max_task_age)
    \/ \E k \in {1, 3} : Submitting < MaxSubmitted /\ Fire(k, Clock(1), 1)
    \/ \E k \in DOMAIN Jobs : CleanupSubmit(k, Clock(1), 1)
    \/ \E w \in Threads : WorkerRun(w, {"transient"})
    \/ \E id \in TaskIds : TimerFire(id)

SpecJobs == InitRunning /\ [][NextJobs]_vars

\* The task queue fed with tasks that carry a callback (one that returns or
\* one that raises) or none; failed tasks are retried by the timer and by
\* hand.
NextCallback ==
    \/ NeverStarted /\ Start
    \/ \E w \in Threads : SpawnWorker(w)
    \/ \E ty \in TaskTypes : RegisterTaskHandler(ty)
    \/ \E ty \in TaskTypes, callback \in Callbacks \cup {NoCallback} :
          Cardinality(DOMAIN tasks) < MaxSubmitted /\ CreateTaskWithCallback(ty, callback, Clock(1), 1)
    \/ \E id \in TaskIds : RetryTask(id)
    \/ \E id \in TaskIds : TimerFire(id)
    \/ \E w \in Threads : WorkerRun(w, {"transient"})
    \/ \E w \in Threads : WorkerCallback(w)

SpecCallback == Init /\ [][NextCallback]_vars

\* The running pool given finitely many tasks, some of a type that has no
\* handler; tasks are cancelled and retried by hand at any time.  Every
\* worker thread keeps being scheduled, every handler ends (it returns or
\* raises an Exception) and every retry timer fires.
NextSettle ==
    \/ \E ty \in TaskTypes \cup {SYSTEM_MAINTENANCE} :
          Cardinality(DOMAIN tasks) < MaxSubmitted /\ CreateTask(ty, NORMAL, Clock(1), 1)
    \/ \E id \in TaskIds : CancelTask(id)
    \/ \E id \in TaskIds : RetryTask(id)
    \/ \E id \in TaskIds : TimerFire(id)
    \/ \E w \in Threads : WorkerRun(w, {"transient"})

SpecSettle ==
    /\ InitRunning
    /\ [][NextSettle]_vars
    /\ \A w \in Threads : WF_vars(WorkerRun(w, {"transient"}))
    /\ \A id \in TaskIds : WF_vars(TimerFire(id))

\* The same pool with handlers that return, raise an Exception or raise an
\* exception that is none (SystemExit); nobody cancels or retries by hand.
NextExits ==
    \/ \E ty \in TaskTypes \cup {SYSTEM_MAINTENANCE} :
          Cardinality(DOMAIN tasks) < MaxSubmitted /\ CreateTask(ty, NORMAL, Clock(1), 1)
    \/ \E id \in TaskIds : TimerFire(id)
    \/ \E w \in Threads : WorkerRun(w, HandlerErrors)

SpecExits ==
    /\ InitRunning
    /\ [][NextExits]_vars
    /\ \A w \in Threads : WF_vars(WorkerRun(w, HandlerErrors))
    /\ \A id \in TaskIds : WF_vars(TimerFire(id))

\* the thresholds clean_completed_tasks is called with
MaxAges == {0, 1}

\* The running pool with a caller that submits, cancels and cleans while time
\* passes.  The caller cancels a task within the tick of its submission, so
\* that a task cancelled before it ran has been cancelled for as long as it
\* has existed.
NextClean ==
    \/ \E ty \in TaskTypes :
          Cardinality(DOMAIN tasks) < MaxSubmitted /\ CreateTask(ty, NORMAL, Clock(1), 1)
    \/ \E id \in TaskIds :
          id \in DOMAIN tasks /\ tasks[id].created_at = now /\ CancelTask(id)
    \/ \E id \in TaskIds : TimerFire(id)
    \/ Tick
    \/ \E max_age \in MaxAges : CleanCompletedTasks(max_age)
    \/ \E w \in Threads : WorkerServe(w)

SpecClean == InitRunning /\ [][NextClean]_vars

\* the threads that use the store: the main thread and another one
StoreThreads == {MainThread, 1}

\* The store with its callers, on the main thread and on others: the
\* credential, the channels and the messages are created, attempt rows are
\* added, read, marked and deleted, connections are closed.  No code path
\* leads from a row to the task queue (the sweep and /push fail before they
\* submit a task), so the queue keeps its initial state here.
NextStore ==
    \/ CreateToken(MainThread, NoExpiry, << >>, NoAi)
    \/ CreateMessage(MainThread, {"title"}, TRUE)
    \/ CreateChannel(MainThread)
    \/ CreateAiChannel(MainThread, RowAi)
    \/ \E k \in MsgIds : DeleteMessage(MainThread, k)
    \/ \E th \in StoreThreads, o \in ObjIds, k \in MsgIds : AddChannelToMessage(th, o, k)
    \/ \E th \in StoreThreads, o \in ObjIds, k \in MsgIds : AddAiToMessage(th, o, k)
    \/ \E th \in StoreThreads, o \in ObjIds, r \in RowIds : Load(th, o, r)
    \/ \E th \in StoreThreads, o \in ObjIds : MarkAsSending(th, o)
    \/ \E th \in StoreThreads, o \in ObjIds : MarkAsProcessing(th, o)
    \/ \E th \in StoreThreads, o \in ObjIds : MarkAsSuccess(th, o)
    \/ \E th \in StoreThreads, o \in ObjIds, err \in RowErrors : MarkAsFailed(th, o, err)
    \/ \E th \in StoreThreads, o \in ObjIds : Delete(th, o)
    \/ \E th \in StoreThreads, kind \in RowKinds :
          \E id \in ChannelIds(kind) : DeleteChannel(th, kind, id)
    \/ \E th \in StoreThreads : CloseDb(th)
    \/ RetryFailedMessages
    \/ PushMessage

SpecStore == Init /\ [][NextStore]_vars

\* ------------------------------------------------------------------ claims
\* C1: once a message_channels or message_ai row has status success, no
\* operation changes its status again.
SuccessLatch ==
    [][\A r \in RowIds : rows[r].status = "success" => rows'[r].status = "success"]_vars

\* C2: of the workers attempting the same transition to sending (processing)
\* on one row, at most one is told it succeeded and proceeds to send.
TransitionMutualExclusion ==
    \A o1, o2 \in ObjIds :
        (o1 # o2 /\ objs[o1].row = objs[o2].row /\ objs[o1].proceeds) => ~objs[o2].proceeds

\* no task is pending, running or scheduled in the task queue
QueueIdle ==
    /\ Len(queue) = 0
    /\ \A i \in DOMAIN tasks : tasks[i].status \notin {"PENDING", "PROCESSING"}
    /\ \A i \in TaskIds : timers[i] = 0

\* C3: no row stays pending or sending forever: when nothing is queued,
\* running or scheduled and no holder of the row is proceeding with a send,
\* the row is success or failed.
NoAttemptLeftWaiting ==
    QueueIdle =>
        \A r \in RowIds :
            (rows[r] # NoRow /\ \A o \in ObjIds : ~(objs[o].row = r /\ objs[o].proceeds))
                => Terminal(rows[r])

\* C4: the retry budget of a row is used up: when a sweep has run and no
\* retry task is pending, every failed row has retry_count = max_retries.
FailedRowsExhaustBudget ==
    (lastCall.op = "retry_failed_messages" /\ QueueIdle) =>
        \A r \in RowIds :
            rows[r].status = "failed" => RetryCountOf(rows[r]) = ProcessorMaxRetries

\* C6: retry(id) succeeds only when the task exists, is FAILED and has
\* retry_count < max_retries; it then sets the status to PENDING, clears the
\* error, adds exactly 1 to retry_count and puts the task back in the queue.
\* In every other case it returns false and changes neither task nor queue.
RetryContract ==
    [][lastCall'.op = "retry" =>
        LET id == lastCall'.id IN
        IF /\ id \in DOMAIN tasks
           /\ tasks[id].registered
           /\ tasks[id].status = "FAILED"
           /\ tasks[id].retry_count < tasks[id].max_retries
        THEN /\ lastCall'.ret = TRUE
             /\ tasks' = [tasks EXCEPT ![id] =
                            [tasks[id] EXCEPT !.status = "PENDING",
                                              !.error = NoError,
                                              !.retry_count = tasks[id].retry_count + 1]]
             /\ Len(queue') = Len(queue) + 1
             /\ Range(queue') = Range(queue) \cup {id}
        ELSE /\ lastCall'.ret = FALSE
             /\ tasks' = tasks
             /\ queue' = queue]_vars

\* a retry(id) has just succeeded: the task is back in the queue, PENDING, with
\* its first retry counted
RetryAccepted ==
    /\ lastCall = Call("retry", lastCall.id, TRUE)
    /\ tasks[lastCall.id].status = "PENDING"
    /\ tasks[lastCall.id].retry_count = 1
    /\ InQueue(queue, lastCall.id)

\* C7: cancel(id) returns true and sets the status to CANCELLED if and only if
\* the task exists and is PENDING at that moment; otherwise it returns false
\* and leaves the task unchanged.
CancelContract ==
    [][lastCall'.op = "cancel" =>
        LET id == lastCall'.id IN
        IF id \in DOMAIN tasks /\ tasks[id].registered /\ tasks[id].status = "PENDING"
        THEN /\ lastCall'.ret = TRUE
             /\ tasks' = [tasks EXCEPT ![id] = [tasks[id] EXCEPT !.status = "CANCELLED"]]
        ELSE /\ lastCall'.ret = FALSE
             /\ tasks' = tasks]_vars

\* a cancel(id) has just succeeded on a pending task that is still in the queue
CancelAccepted ==
    /\ lastCall = Call("cancel", lastCall.id, TRUE)
    /\ tasks[lastCall.id].status = "CANCELLED"
    /\ InQueue(queue, lastCall.id)

\* C8: whenever a worker dequeues a task, no pending task left
\* in the queue has a numerically smaller priority, and none of the same
\* priority has an earlier created_at; a retried task competes with the
\* created_at it was given at submission.
PriorityMonotonic ==
    [][\A w \in Threads :
        (workers[w].pc = "get" /\ workers'[w].pc = "test") =>
            LET d == workers'[w].task IN
            /\ d \in Range(queue) \ Range(queue')
            /\ tasks'[d].created_at = tasks[d].created_at
            /\ \A j \in Range(queue') :
                  tasks[j].status = "PENDING" =>
                     /\ tasks[d].priority <= tasks[j].priority
                     /\ tasks[d].priority = tasks[j].priority =>
                            tasks[d].created_at <= tasks[j].created_at]_vars

\* a retried task has been dequeued ahead of a pending task that was submitted
\* earlier with a less urgent priority
RetriedTaskOvertakes ==
    \E w \in Threads :
        /\ workers[w].pc = "process"
        /\ tasks[workers[w].task].retry_count > 0
        /\ \E j \in Range(queue) :
              /\ tasks[j].status = "PENDING"
              /\ tasks[j].priority > tasks[workers[w].task].priority
              /\ tasks[j].created_at < tasks[workers[w].task].created_at

\* C9: a handler exception never terminates the worker: the task becomes
\* FAILED with the error recorded, the worker goes back to its loop, and a
\* delayed retry is scheduled if and only if retry_count < max_retries at
\* that moment.
HandlerExceptionContained ==
    [][\A w \in Threads :
        LET t == workers[w].task IN
        /\ (workers[w].pc = "handler" /\ workers'[w] # workers[w]
                /\ tasks'[t].status # "COMPLETED") =>
              /\ tasks'[t].status = "FAILED"
              /\ tasks'[t].error \in HandlerErrors
              /\ workers'[w] = [pc |-> "retrycheck", task |-> t]
        /\ (workers[w].pc = "retrycheck" /\ workers'[w] # workers[w]) =>
              /\ workers'[w].pc = "loop"
              /\ timers'[t] = timers[t] +
                    (IF tasks[t].retry_count < tasks[t].max_retries THEN 1 ELSE 0)
        /\ workers[w].pc \in {"handler", "retrycheck"} => workers'[w].pc # "exited"]_vars

\* C5: a task that failed permanently is never re-executed by the task
\* queue's automatic retry: the retry decision after a permanent failure
\* starts no timer.
PermanentFailureNotRetried ==
    [][\A w \in Threads :
        (workers[w].pc = "retrycheck" /\ tasks[workers[w].task].error = "permanent") =>
            timers' = timers]_vars

\* task i is a Low-priority task waiting in the queue
LowPending(i) ==
    i \in DOMAIN tasks /\ tasks[i].priority = LOW /\ tasks[i].status = "PENDING"

\* C10: a pending Low-priority task is eventually processed by a worker even
\* while Normal and High priority tasks keep being submitted.
LowNeverStarved ==
    \A i \in TaskIds : LowPending(i) ~> ~LowPending(i)

\* the time for which a task has been finished at time `at`: since its
\* completed_at or, for a task cancelled before it ever ran, since its
\* submission
TaskAge(t, at) ==
    at - (IF t.completed_at # NoTime THEN t.completed_at ELSE t.created_at)

\* C11: clean_completed_tasks(max_age) removes from the task map exactly the
\* tasks that are COMPLETED or CANCELLED and older than max_age; every other
\* task stays.
PurgeExact ==
    [][lastCall'.op = "clean_completed_tasks" =>
        \A i \in DOMAIN tasks :
            tasks[i].registered =>
                ((i \notin DOMAIN tasks' \/ ~tasks'[i].registered) <=>
                    (/\ tasks[i].status \in {"COMPLETED", "CANCELLED"}
                     /\ TaskAge(tasks[i], now) > lastCall'.id))]_vars

\* C12: the worker pool is fixed-size: whatever the sequence of starts and
\* stops, at most max_workers worker threads are alive.
PoolFixedSize == Cardinality(LiveThreads) <= MaxWorkers

\* reversed(seq)
Reverse(seq) == [k \in DOMAIN seq |-> seq[Len(seq) + 1 - k]]

\* the components whose stop() the shutdown in the log has called, in order
StoppedNames(log) == [k \in DOMAIN log |-> log[k].c]

\* C13 as stated: every shutdown call that returns has called stop on every
\* component, in the reverse of the start order, and leaves the system not
\* running.
ShutdownAlwaysStopsAll ==
    [][lastCall'.op = "shutdown" =>
        /\ StoppedNames(core'.stoplog) = Reverse(Components)
        /\ ~core'.running]_vars

\* C13 amended: a shutdown call that finds no shutdown in progress calls stop
\* on every component, in the reverse of the start order, goes on past every
\* stop that raises, and leaves the system not running when it returns; a
\* shutdown call made while a shutdown is in progress returns at once and
\* stops nothing.
ShutdownContract ==
    [][lastCall'.op = "shutdown" =>
        IF lastCall'.ret
        THEN /\ StoppedNames(core'.stoplog) = Reverse(Components)
             /\ ~core'.running
        ELSE /\ core.shutting_down
             /\ UNCHANGED <<stop_event, workers, sys>>]_vars

\* C13 witness: a shutdown has returned after stopping the four components,
\* one of whose stop raised before the last ones were stopped
ShutdownPastRaise ==
    /\ lastCall = Call("shutdown", 0, TRUE)
    /\ Len(core.stoplog) = Len(Components)
    /\ \E k \in DOMAIN core.stoplog :
          core.stoplog[k].raised /\ k < Len(core.stoplog)
    /\ stop_event

\* C14: when start returns, the components have been started in the order of
\* the component table (Task Queue, Dispatch Handlers, Scheduler, Error
\* Ledger) and configure has been called on each of them.
StartupOrderAndConfigure ==
    [][(lastCall'.op = "start" /\ lastCall'.ret) =>
        /\ core'.startlog =
              <<"TaskQueue", "MessageProcessor", "TaskScheduler", "ErrorHandler">>
        /\ \A k \in DOMAIN Components : Components[k] \in core'.configured]_vars

\* C16: each firing of a periodic job submits exactly one SYSTEM_MAINTENANCE
\* task, whose action and priority are cleanup at LOW, retry_failed_messages
\* at NORMAL, generate_stats at LOW, db_maintenance at LOW.
FiringSubmitsOneTask ==
    [][lastCall'.op = "fire" =>
        LET job == Jobs[lastCall'.id].id
            action == CASE job = "cleanup_task" -> "cleanup"
                        [] job = "retry_failed_tasks" -> "retry_failed_messages"
                        [] job = "generate_stats" -> "generate_stats"
                        [] job = "db_maintenance" -> "db_maintenance"
            priority == IF job = "retry_failed_tasks" THEN NORMAL ELSE LOW
            new == {i \in DOMAIN tasks' : i \notin DOMAIN tasks}
        IN  /\ Cardinality(new) = 1
            /\ \A i \in new :
                  /\ tasks'[i].task_type = SYSTEM_MAINTENANCE
                  /\ tasks'[i].data = action
                  /\ tasks'[i].priority = priority
                  /\ InQueue(queue', i)]_vars

\* a task submitted by the retry_failed job
RetrySweepTask(t) == t.task_type = SYSTEM_MAINTENANCE /\ t.data = "retry_failed_messages"

\* C15: when a row is failed with retry_count < max_retries, a firing of the
\* retry_failed job submits the sweep to the task queue, and once a worker
\* has processed that task the sweep has been executed: the task is COMPLETED
\* and a SEND_MESSAGE task (an AI_PROCESS task for a message_ai row) has been
\* submitted for the row.
FailedAttemptRequeued ==
    \A r \in RowIds :
        (rows[r].status = "failed" /\ RetryCountOf(rows[r]) < ProcessorMaxRetries) =>
            /\ (lastCall.op = "fire" /\ Jobs[lastCall.id].id = "retry_failed_tasks") =>
                  \E i \in DOMAIN tasks : RetrySweepTask(tasks[i])
            /\ \A i \in DOMAIN tasks :
                  (RetrySweepTask(tasks[i]) /\ tasks[i].status \in {"COMPLETED", "FAILED"}) =>
                      /\ tasks[i].status = "COMPLETED"
                      /\ \E j \in DOMAIN tasks :
                            tasks[j].task_type =
                                IF rows[r].kind = "channel" THEN "SEND_MESSAGE" ELSE "AI_PROCESS"

\* the credential named by the token parameter is enabled and its expires_at
\* is absent or a time strictly later than t
ValidCredential(token, t) ==
    /\ token = "known"
    /\ api.token.status = "enabled"
    /\ \/ api.token.expires_at.kind = "none"
       \/ /\ api.token.expires_at.kind \in {"naive", "aware"}
          /\ api.token.expires_at.at > t

\* C17: a request to /push or /message/{id} is admitted (the endpoint handler
\* is run) if and only if its token names a credential that is enabled and
\* whose expires_at is absent or strictly later than now; every other request
\* is answered with code 1001 and creates no message row and no task.
AdmissionExact ==
    [][lastCall'.op \in {"push", "get_message"} =>
        LET valid == ValidCredential(api'.req.token, now) IN
        /\ api'.resp.ran <=> valid
        /\ ~valid =>
              /\ api'.resp.code = 1001
              /\ api'.messages = api.messages
              /\ tasks' = tasks]_vars

\* C18: every messages row has at least one of title, content, url
\* non-empty, whichever operation created it; a /push whose three fields are
\* all missing or empty is answered with code 1002 and HTTP 400 and creates
\* no messages row and no task.
ContentRequired ==
    [][/\ \A k \in DOMAIN api'.messages : api'.messages[k].fields # {}
       /\ (lastCall'.op = "push" /\ api'.resp.ran /\ api'.req.fields = {}) =>
              /\ api'.resp.code = 1002
              /\ api'.resp.http = 400
              /\ api'.messages = api.messages
              /\ tasks' = tasks]_vars

\* the channels named by the last request that exist and are enabled
Resolved ==
    LET enabled(c) == c = C1 /\ api.channel = "enabled"
    IN  SelectSeq(api'.req.channels, enabled)

\* C19: a /push that passes authentication and validation (it has a title,
\* content or url, and its channels are a string) and names channels, every
\* one of which is missing or disabled, is answered with code 1003 and HTTP
\* 400; no message_channels row is created and no task is submitted.
NoValidChannelRejected ==
    [][(/\ lastCall'.op = "push"
        /\ api'.resp.ran
        /\ api'.req.fields # {}
        /\ api'.req.body = "params"
        /\ api'.req.channels # << >>
        /\ Resolved = << >>) =>
            /\ api'.resp.code = 1003
            /\ api'.resp.http = 400
            /\ rows' = rows
            /\ tasks' = tasks]_vars

\* C21: a /push that passes authentication and validation (it has a title,
\* content or url, and no non-empty JSON array of channels) uses the channels
\* of the request, or the credential's default channel ids in their order when
\* the request names none, and the ai of the request, or the credential's
\* default_ai when the request names none; when every one of those channels
\* is enabled (or there is none: no defaults and no channels) and the AI
\* channel, if any, is enabled, the push succeeds with exactly those ids as
\* data.channels and that AI channel as data.ai.
DefaultsApplied ==
    [][(/\ lastCall'.op = "push"
        /\ api'.resp.ran
        /\ api'.req.fields # {}
        /\ ~(api'.req.body = "channel_array" /\ api'.req.channels # << >>)) =>
          LET channel_ids == IF api'.req.channels # << >> THEN api'.req.channels
                             ELSE api.token.default_channels
              ai_id == IF api'.req.ai # NoAi THEN api'.req.ai ELSE api.token.default_ai
          IN  (/\ \A k \in DOMAIN channel_ids :
                      channel_ids[k] = C1 /\ api.channel = "enabled"
               /\ ai_id = NoAi \/ (ai_id \in AiIds /\ api.ai_channel[ai_id] = "enabled")) =>
                    /\ api'.resp.code = 0
                    /\ api'.resp.channels = channel_ids
                    /\ api'.resp.ai = ai_id]_vars

\* C22: GET /message/{id}, once the request is admitted: when no messages row
\* has the id the answer is code 1006 with HTTP 404; when the row belongs to
\* another credential the answer is code 1001 with HTTP 403; both carry data
\* null, and no answer carries message data unless the row exists and
\* belongs to the caller.
MessageOwnerOnly ==
    [][lastCall'.op = "get_message" =>
        LET k == lastCall'.id
            exists == k \in DOMAIN api.messages
        IN  /\ (api'.resp.ran /\ ~exists) =>
                  api'.resp.code = 1006 /\ api'.resp.http = 404 /\ ~api'.resp.data
            /\ (api'.resp.ran /\ exists /\ ~api.messages[k].owned) =>
                  api'.resp.code = 1001 /\ api'.resp.http = 403 /\ ~api'.resp.data
            /\ api'.resp.data => (exists /\ api.messages[k].owned)]_vars

\* C23: no two message_channels rows have the same message_id and channel_id.
OneAttemptPerPair ==
    \A i, j \in DOMAIN api.message_channels :
        (/\ api.message_channels[i].message_id = api.message_channels[j].message_id
         /\ api.message_channels[i].channel_id = api.message_channels[j].channel_id) => i = j

\* add_channel_to_message was called for a pair that has a row: the row is
\* returned and none is inserted
RepeatedAddReturnsRow ==
    /\ lastCall.op = "add_channel_to_message"
    /\ lastCall.id \in DOMAIN api.message_channels
    /\ ~lastCall.ret

\* C24: no two message_ai rows have the same message_id, whichever AI
\* channels the calls name.
OneAiAttemptPerMessage ==
    \A i, j \in DOMAIN api.message_ai :
        api.message_ai[i].message_id = api.message_ai[j].message_id => i = j

\* C25: the status of every message_channels row is one of waiting, sending,
\* success, failed, and that of every message_ai row one of waiting,
\* processing, success, failed.
AttemptStatusDomain ==
    \A r \in RowIds :
        /\ rows[r].kind = "channel" =>
              rows[r].status \in {"waiting", "sending", "success", "failed"}
        /\ rows[r].kind = "ai" =>
              rows[r].status \in {"waiting", "processing", "success", "failed"}

\* the last n records of a history
LastRecords(history, n) ==
    IF Len(history) <= n THEN history
    ELSE SubSeq(history, Len(history) - n + 1, Len(history))

\* C26: the error history never holds more than max_error_history records,
\* and a handle_error leaves the most recent max_error_history records of
\* the old history followed by its own record, which carries the given type
\* and severity: the record is appended at the tail and, when the bound is
\* exceeded, the oldest one is dropped.
ErrorHistoryBounded ==
    [][lastCall'.op = "handle_error" =>
        LET eh == core.error_handler
            record == [type |-> core'.error_handler.req.type,
                       severity |-> core'.error_handler.req.severity]
        IN  /\ Len(core'.error_handler.error_history) <= eh.max_error_history
            /\ core'.error_handler.error_history =
                  LastRecords(Append(eh.error_history, record), eh.max_error_history)]_vars

OldestRecordDropped ==
    /\ lastCall.op = "handle_error"
    /\ lastCall.ret
    /\ core.error_handler.max_error_history > 1
    /\ Len(core.error_handler.error_history) = core.error_handler.max_error_history
    /\ core.error_handler.error_history[1] # core.error_handler.req

\* C27: a handle_error of severity s changes the counter of s only: it
\* is one more than before, or 0 when that meets the threshold; afterwards
\* every counter whose threshold is at least 1 is below its threshold.
CountersBelowThreshold ==
    [][lastCall'.op = "handle_error" =>
        LET eh == core.error_handler
            s == core'.error_handler.req.severity
            counters == core'.error_handler.error_counters
        IN  /\ \A t \in Severities \ {s} : counters[t] = eh.error_counters[t]
            /\ counters[s] = IF eh.error_counters[s] + 1 >= eh.notification_threshold[s]
                              THEN 0 ELSE eh.error_counters[s] + 1
            /\ \A t \in Severities :
                  eh.notification_threshold[t] >= 1 =>
                      counters[t] < eh.notification_threshold[t]]_vars

CounterResetAtThreshold ==
    /\ lastCall.op = "handle_error"
    /\ core.error_handler.notification_threshold[core.error_handler.req.severity] > 1
    /\ core.error_handler.error_counters[core.error_handler.req.severity] = 0
    /\ \E t \in Severities : core.error_handler.error_counters[t] > 0

\* C28: a read issued after a write has returned observes it, on whichever
\* thread: a get of a row that has been written returns an object holding
\* the fields last saved to the row.
ReadObservesWrite ==
    [][(lastCall'.op = "get" /\ rows[lastCall'.id] # NoRow) =>
          /\ lastCall'.ret
          /\ \E o \in ObjIds :
                /\ objs[o] = NoObj
                /\ objs'[o] = ObjOf(lastCall'.id, rows[lastCall'.id])]_vars

\* C29: every dispatch sends a request whose content is the message content
\* cut to the first max_length codepoints of the channel.
LengthCap ==
    [][(lastCall'.op = "handle_send_message" /\ lastCall'.ret) =>
          LET content == api'.dispatch.content
              max_length == api'.dispatch.max_length
              cut == IF Len(content) <= max_length THEN content
                     ELSE SubSeq(content, 1, max_length)
          IN  /\ Len(api'.outbox) = Len(api.outbox) + 1
              /\ api'.outbox[Len(api'.outbox)].content = cut]_vars

\* C30: a task that cancel(id) has set to CANCELLED keeps that status, and no
\* worker passes it to its handler, whatever the worker that dequeued it
\* does next.
CancelledStaysCancelled ==
    [][/\ \A id \in DOMAIN tasks :
            (tasks[id].status = "CANCELLED" /\ id \in DOMAIN tasks') =>
                tasks'[id].status = "CANCELLED"
       /\ \A w \in Threads :
            (workers[w].pc # "handler" /\ workers'[w].pc = "handler") =>
                tasks[workers'[w].task].status # "CANCELLED"]_vars

\* C31: for a task submitted once (one add_task of its object), no two
\* workers are in the handler of the task at once, and the queue holds at
\* most one entry for it while it is PENDING.
SingleExecution ==
    /\ \A w1, w2 \in Threads :
          (/\ workers[w1].pc = "handler"
           /\ workers[w2].pc = "handler"
           /\ workers[w1].task = workers[w2].task
           /\ tasks[workers[w1].task].adds = 1) => w1 = w2
    /\ \A id \in DOMAIN tasks :
          (tasks[id].status = "PENDING" /\ tasks[id].adds = 1) =>
              Cardinality({k \in 1..Len(queue) : queue[k] = id}) <= 1

\* a retry (by hand or by the timer) of a task that has been retried before
\* arrives while a worker is in the handler of that task, and is refused
RetryRefusedWhileRunning ==
    /\ lastCall = Call("retry", lastCall.id, FALSE)
    /\ lastCall.id \in DOMAIN tasks
    /\ tasks[lastCall.id].status = "PROCESSING"
    /\ tasks[lastCall.id].adds = 1
    /\ tasks[lastCall.id].retry_count > 0
    /\ \E w \in Threads : workers[w].pc = "handler" /\ workers[w].task = lastCall.id

\* C32: once the stop flag is set no worker hands a further task to
\* _process_task, and a worker leaves its loop only between tasks,
\* after the task it was processing has been recorded COMPLETED or FAILED.
StopHonoured ==
    [][\A w \in Threads :
          /\ (stop_event /\ workers[w].pc = "test") => workers'[w].pc # "process"
          /\ (workers[w].pc # "exited" /\ workers'[w].pc = "exited") =>
                workers[w].pc = "loop" /\ workers[w].task = 0]_vars

\* C34: a /push answered with a non-zero code has written no message_channels
\* row and no message_ai row and has submitted no task, also when its
\* channels are enabled and its AI channel is missing or disabled.
PushFailureWritesNothing ==
    [][(lastCall'.op = "push" /\ api'.resp.code # 0) =>
          /\ api'.message_channels = api.message_channels
          /\ api'.message_ai = api.message_ai
          /\ UNCHANGED <<rows, tasks, queue>>]_vars

\* a /push naming an enabled channel and an AI channel that has no row has
\* been answered with a non-zero code
PushRefusedForAi ==
    /\ lastCall.op = "push"
    /\ api.resp.ran /\ api.resp.code # 0
    /\ api.req.fields # {}
    /\ api.req.channels = <<C1, C1>> /\ api.channel = "enabled"
    /\ api.req.ai = "a2" /\ api.ai_channel["a2"] = "none"

\* C35: the retry count of a task never exceeds its max_retries, and its
\* handler is called at most max_retries + 1 times, the retries of the timer
\* and those made by hand counted together.
RetryBudgetKept ==
    \A id \in DOMAIN tasks :
        /\ tasks[id].retry_count <= tasks[id].max_retries
        /\ tasks[id].runs <= tasks[id].max_retries + 1

\* C38: when the handler of a task returns, that is one call of the handler
\* and the task is COMPLETED with completed_at and the handler's result; the
\* callback, if the task has one, is then called once with that result, and
\* whether it returns or raises the task stays COMPLETED and no retry timer
\* is started.
HandlerReturnCompletes ==
    [][/\ \A w \in Threads :
            LET id == workers[w].task IN
            /\ (workers[w].pc = "handler" /\ workers'[w].pc \in {"loop", "callback"}) =>
                  /\ tasks'[id].runs = tasks[id].runs + 1
                  /\ tasks'[id].status = "COMPLETED"
                  /\ tasks'[id].completed_at = now
                  /\ tasks'[id].result = HandlerResult
                  /\ tasks'[id].called = 0
                  /\ (workers'[w].pc = "callback") = (tasks[id].callback # NoCallback)
            /\ workers[w].pc = "callback" =>
                  /\ tasks[id].status = "COMPLETED"
                  /\ workers'[w].pc \in {"callback", "loop", "exited"}
                  /\ workers'[w].pc # "callback" =>
                        /\ tasks'[id].called = 1
                        /\ tasks'[id].passed = tasks[id].result
                        /\ UNCHANGED <<timers, queue>>
       /\ \A id \in DOMAIN tasks :
            tasks[id].status = "COMPLETED" =>
                /\ id \in DOMAIN tasks'
                /\ tasks'[id].status = "COMPLETED"
                /\ tasks'[id].result = tasks[id].result
                /\ tasks'[id].retry_count = tasks[id].retry_count
                /\ tasks'[id].called >= tasks[id].called]_vars

\* the callback of a completed task has raised: the task is COMPLETED with
\* the result that was passed to the callback, no timer is pending and a
\* retry of the task has been refused
CallbackRaisedTaskCompleted ==
    /\ lastCall.op = "retry" /\ ~lastCall.ret
    /\ lastCall.id \in DOMAIN tasks
    /\ LET t == tasks[lastCall.id] IN
       /\ t.callback = "raises"
       /\ t.called = 1
       /\ t.status = "COMPLETED"
       /\ t.completed_at # NoTime
       /\ t.result = HandlerResult /\ t.passed = HandlerResult
    /\ timers[lastCall.id] = 0
    /\ \A w \in Threads : workers[w].task # lastCall.id

\* a task has reached its end: COMPLETED, CANCELLED, or FAILED with its
\* retry budget used up
Settled(t) ==
    \/ t.status \in {"COMPLETED", "CANCELLED"}
    \/ t.status = "FAILED" /\ t.retry_count = t.max_retries

\* C36: while the pool runs and finitely many tasks are submitted, every
\* task ends COMPLETED, CANCELLED, or FAILED with retry_count = max_retries:
\* from some time on no task is PENDING, PROCESSING or FAILED with budget
\* left.
TasksSettle == <>[](\A id \in DOMAIN tasks : Settled(tasks[id]))

\* C37: one run of the sweep submits, for each failed row whose retry count
\* is below max_retries, exactly one task at LOW priority (SEND_MESSAGE for a
\* message_channels row, AI_PROCESS for a message_ai row) and raises the
\* row's retry count by 1; it submits nothing else and changes no other row.
SweepRetriesFailedRows ==
    [][lastCall'.op = "retry_failed_messages" =>
          LET due == {r \in RowIds : /\ rows[r].status = "failed"
                                     /\ RetryCountOf(rows[r]) < ProcessorMaxRetries}
              new == {i \in DOMAIN tasks' : i \notin DOMAIN tasks}
          IN  /\ Cardinality(new) = Cardinality(due)
              /\ \A r \in due :
                    /\ \E i \in new :
                          /\ tasks'[i].priority = LOW
                          /\ tasks'[i].task_type =
                                IF rows[r].kind = "channel" THEN "SEND_MESSAGE" ELSE "AI_PROCESS"
                          /\ InQueue(queue', i)
                    /\ RetryCountOf(rows'[r]) = RetryCountOf(rows[r]) + 1
              /\ \A r \in RowIds \ due : rows'[r] = rows[r]]_vars

\* C39: handle_error(type, ...) calls the callbacks registered for that type,
\* each once for each of its registrations and in the order of registration,
\* and none that is registered for another type only; a callback that raises
\* does not end the calls; the record of the error is in the history and the
\* counter of its severity is updated.
CallbacksAllCalled ==
    [][lastCall'.op = "handle_error" =>
          LET eh == core.error_handler
              after == core'.error_handler
              registered == IF after.req.type \in DOMAIN eh.error_callbacks
                            THEN eh.error_callbacks[after.req.type] ELSE << >>
          IN  /\ after.invoked = registered
              /\ after.error_callbacks = eh.error_callbacks
              /\ after.error_history # << >>
              /\ after.error_history[Len(after.error_history)] = after.req
              /\ after.error_counters[after.req.severity] =
                    IF eh.error_counters[after.req.severity] + 1
                           >= eh.notification_threshold[after.req.severity]
                    THEN 0 ELSE eh.error_counters[after.req.severity] + 1]_vars

\* a task of a type that has no handler
Unhandled(t) == t.task_type \notin task_handlers

\* C40: a task whose type has no handler is treated like one whose handler
\* raised: the worker records it FAILED with an error without calling any
\* handler, starts the retry timer while retry_count < max_retries and
\* returns to its loop; unless it is cancelled the task ends FAILED with
\* retry_count = max_retries.
MissingHandlerIsFailure ==
    /\ [][\A w \in Threads :
            LET id == workers[w].task IN
            /\ (workers[w].pc = "lookup" /\ Unhandled(tasks[id]) /\ workers'[w] # workers[w]) =>
                  /\ workers'[w] = [pc |-> "missing", task |-> id]
                  /\ tasks' = tasks
            /\ (workers[w].pc = "missing" /\ workers'[w] # workers[w]) =>
                  /\ workers'[w] = [pc |-> "retrycheck", task |-> id]
                  /\ tasks'[id].status = "FAILED"
                  /\ tasks'[id].error = NoHandlerError
                  /\ tasks'[id].runs = tasks[id].runs
            /\ (workers[w].pc = "retrycheck" /\ workers'[w] # workers[w]) =>
                  /\ workers'[w] = [pc |-> "loop", task |-> 0]
                  /\ timers'[id] = IF tasks[id].retry_count < tasks[id].max_retries
                                    THEN timers[id] + 1 ELSE timers[id]]_vars
    /\ <>[](\A id \in DOMAIN tasks :
              Unhandled(tasks[id]) =>
                  \/ tasks[id].status = "CANCELLED"
                  \/ /\ tasks[id].status = "FAILED"
                     /\ tasks[id].error = NoHandlerError
                     /\ tasks[id].retry_count = tasks[id].max_retries)

\* a task without a handler has been retried until its budget was used up
\* and is FAILED with the error of the missing handler, and every worker of
\* the pool is still serving the queue
UnhandledTaskExhausted ==
    /\ \E id \in DOMAIN tasks :
          /\ Unhandled(tasks[id])
          /\ tasks[id].status = "FAILED" /\ tasks[id].error = NoHandlerError
          /\ tasks[id].max_retries > 0
          /\ tasks[id].retry_count = tasks[id].max_retries
          /\ tasks[id].runs = 0
          /\ timers[id] = 0
    /\ \A w \in 1..MaxWorkers : workers[w].pc \in {"loop", "get"}

====
